---- MODULE Spec2Model ----
(***************************************************************************)
(* Model of the mission-action scoring and ranking engine: the four source *)
(* adapters, merge_all_data, the action-sports / outreach / combined       *)
(* scorers, generate_rankings (default and weighted) and get_top_countries.*)
(*                                                                         *)
(* Numbers are exact rationals <<n, d>> with d > 0.  The IEEE values the   *)
(* pandas code can produce are kept: NaN is <<0, 0>>, +inf is <<1, 0>>,    *)
(* -inf is <<-1, 0>>.  A null cell of a numeric column is NaN, as in       *)
(* pandas.  Floating-point rounding error of the last bit is not modelled. *)
(***************************************************************************)
EXTENDS Integers, Sequences, FiniteSets, TLC

VARIABLES
    jp_csv,      \* rows of data/raw/joshua_project_countries.csv (<< >>: file missing)
    od_csv,      \* rows of data/raw/open_doors_wwl_2025.csv
    wef_csv,     \* rows of data/raw/wef_ttdi_2024.csv
    as_csv,      \* rows of data/raw/action_sports_by_country.csv
    merged,      \* what merge_all_data returned (or raised)
    call,        \* the last public operation called, with its arguments
    ret,         \* what that operation returned (or raised)
    top,         \* what get_top_countries returned (or raised)
    session_state  \* st.session_state: the sidebar's widget values by key

vars == <<jp_csv, od_csv, wef_csv, as_csv, merged, call, ret, top, session_state>>

-----------------------------------------------------------------------------
(* Bounds of the model *)

MaxRows == 3
MaxSeriesLen == 2

-----------------------------------------------------------------------------
(* Exact arithmetic with NaN and infinities *)

None == "None"
NaN == <<0, 0>>
Inf == <<1, 0>>

Abs(n) == IF n < 0 THEN 0 - n ELSE n
Sign(n) == IF n < 0 THEN 0 - 1 ELSE IF n > 0 THEN 1 ELSE 0

RECURSIVE GCD(_, _)
GCD(a, b) == IF b = 0 THEN a ELSE GCD(b, a % b)

Norm(n, d) ==
    IF d = 0 THEN <<Sign(n), 0>>
    ELSE LET g == GCD(Abs(n), Abs(d))
             s == Sign(d)
         IN  <<(s * n) \div g, (s * d) \div g>>

F(n) == <<n, 1>>
Q(n, d) == Norm(n, d)

IsNaN(x) == x[1] = 0 /\ x[2] = 0
IsFinite(x) == x[2] # 0

RAdd(a, b) ==
    IF IsNaN(a) \/ IsNaN(b) THEN NaN
    ELSE IF a[2] = 0 /\ b[2] = 0 THEN (IF a[1] = b[1] THEN a ELSE NaN)
    ELSE IF a[2] = 0 THEN a
    ELSE IF b[2] = 0 THEN b
    ELSE LET g == GCD(a[2], b[2])
         IN  Norm(a[1] * (b[2] \div g) + b[1] * (a[2] \div g), a[2] * (b[2] \div g))

RNeg(a) == <<0 - a[1], a[2]>>
RSub(a, b) == RAdd(a, RNeg(b))

RMul(a, b) ==
    IF IsNaN(a) \/ IsNaN(b) THEN NaN
    ELSE IF a[2] = 0 \/ b[2] = 0 THEN <<Sign(a[1]) * Sign(b[1]), 0>>
    ELSE LET g1 == GCD(Abs(a[1]), b[2])
             g2 == GCD(Abs(b[1]), a[2])
         IN  Norm((a[1] \div g1) * (b[1] \div g2), (a[2] \div g2) * (b[2] \div g1))

\* IEEE division: x/0 is +-inf, 0/0 and inf/inf are NaN, x/inf is 0.
RDiv(a, b) ==
    IF IsNaN(a) \/ IsNaN(b) THEN NaN
    ELSE IF b[2] = 0 THEN (IF a[2] = 0 THEN NaN ELSE F(0))
    ELSE IF b[1] = 0 THEN <<Sign(a[1]), 0>>
    ELSE IF a[2] = 0 THEN <<Sign(a[1]) * Sign(b[1]), 0>>
    ELSE RMul(a, Norm(b[2], b[1]))

\* a/b < c/d for a, c >= 0 and b, d > 0, without forming the cross products.
RECURSIVE FracLt(_, _, _, _)
FracLt(a, b, c, d) ==
    LET qa == a \div b
        qc == c \div d
        ra == a % b
        rc == c % d
    IN  IF qa # qc THEN qa < qc
        ELSE IF rc = 0 THEN FALSE
        ELSE IF ra = 0 THEN TRUE
        ELSE FracLt(d, rc, b, ra)

\* Every comparison with NaN is false.
RLt(a, b) ==
    IF IsNaN(a) \/ IsNaN(b) THEN FALSE
    ELSE IF a[2] = 0 \/ b[2] = 0 THEN
        IF a[2] = 0 /\ b[2] = 0 THEN a[1] < b[1]
        ELSE IF a[2] = 0 THEN a[1] < 0
        ELSE b[1] > 0
    ELSE IF a[1] < 0 /\ b[1] >= 0 THEN TRUE
    ELSE IF a[1] >= 0 /\ b[1] < 0 THEN FALSE
    ELSE IF a[1] < 0 THEN FracLt(0 - b[1], b[2], 0 - a[1], a[2])
    ELSE FracLt(a[1], a[2], b[1], b[2])

RGt(a, b) == RLt(b, a)
RLe(a, b) == ~IsNaN(a) /\ ~IsNaN(b) /\ ~RLt(b, a)


\* Series.clip(upper=hi): the lower bound left out.
Clip_UpperOnly(x, lo, hi) ==
    IF IsNaN(x) THEN NaN
    ELSE IF RLt(hi, x) THEN hi
    ELSE x

\* Series.clip(lo, hi): NaN stays NaN.
Clip(x, lo, hi) ==
    IF IsNaN(x) THEN NaN
    ELSE IF RLt(x, lo) THEN lo
    ELSE IF RLt(hi, x) THEN hi
    ELSE x

\* Series.fillna(v)
FillNa(x, v) == IF IsNaN(x) THEN v ELSE x

\* Series.round(1) of a non-negative number: nearest tenth, halves to even.
Round1(x) ==
    IF ~IsFinite(x) THEN x
    ELSE LET ip   == x[1] \div x[2]
             r    == x[1] % x[2]
             t    == (r * 10) \div x[2]
             rem  == (r * 10) % x[2]
             base == ip * 10 + t
             up   == 2 * rem > x[2] \/ (2 * rem = x[2] /\ base % 2 = 1)
         IN  Norm(base + (IF up THEN 1 ELSE 0), 10)

InRange0to100(x) == RLe(F(0), x) /\ RLe(x, F(100))

-----------------------------------------------------------------------------
(* Sequences *)

Range(s) == {s[i] : i \in 1..Len(s)}

RECURSIVE Flatten(_)
Flatten(ss) == IF ss = << >> THEN << >> ELSE Head(ss) \o Flatten(Tail(ss))

\* Series.max(), Series.min(): NaN is skipped, NaN if nothing is left.
RECURSIVE SeriesMax(_)
SeriesMax(s) ==
    IF s = << >> THEN NaN
    ELSE LET m == SeriesMax(Tail(s))
         IN  IF IsNaN(Head(s)) THEN m
             ELSE IF IsNaN(m) THEN Head(s)
             ELSE IF RLt(m, Head(s)) THEN Head(s) ELSE m

\* The non-NaN values of a series in ascending order (insertion sort).
RECURSIVE InsertSorted(_, _)
InsertSorted(x, s) ==
    IF s = << >> THEN <<x>>
    ELSE IF RLt(x, Head(s)) THEN <<x>> \o s
    ELSE <<Head(s)>> \o InsertSorted(x, Tail(s))

RECURSIVE SortedValid(_)
SortedValid(s) ==
    IF s = << >> THEN << >>
    ELSE IF IsNaN(Head(s)) THEN SortedValid(Tail(s))
    ELSE InsertSorted(Head(s), SortedValid(Tail(s)))

\* Series.median(): NaN is skipped; the mean of the two middle values when the
\* count is even; NaN when every value is NaN.
Median(s) ==
    LET v == SortedValid(s)
        n == Len(v)
    IN  IF n = 0 THEN NaN
        ELSE IF n % 2 = 1 THEN v[(n + 1) \div 2]
        ELSE RDiv(RAdd(v[n \div 2], v[n \div 2 + 1]), F(2))

-----------------------------------------------------------------------------
(* Data frames: [cols |-> set of column names, rows |-> sequence of rows],  *)
(* a row being a function from the column names to cell values.            *)

EmptyFrame == [cols |-> {}, rows |-> << >>]

IsEmpty(df) == df.rows = << >>

Column(df, c) == [i \in 1..Len(df.rows) |-> df.rows[i][c]]

\* df[keep]: the projection on some columns.
Subset(df, keep) ==
    [cols |-> keep, rows |-> [i \in 1..Len(df.rows) |-> [c \in keep |-> df.rows[i][c]]]]


\* how='inner': a left row without a match is dropped.
MergedRowsFor_Inner(l, right, key, nulls) ==
    LET other == right.cols \ {key}
        m == SelectSeq(right.rows, LAMBDA r : r[key] = l[key])
    IN  [j \in 1..Len(m) |-> l @@ [c \in other |-> m[j][c]]]

\* left.merge(right, on=key, how='left').  Every left row is kept, in order; it
\* is repeated once per right row with an equal key and gets `nulls` when there
\* is none.  pandas matches a null key with a null key.
MergedRowsFor(l, right, key, nulls) ==
    LET other == right.cols \ {key}
        m == SelectSeq(right.rows, LAMBDA r : r[key] = l[key])
    IN  IF m = << >> THEN <<l @@ nulls>>
        ELSE [j \in 1..Len(m) |-> l @@ [c \in other |-> m[j][c]]]

LeftMerge(left, right, key, nulls) ==
    [cols |-> left.cols \cup right.cols,
     rows |-> Flatten([i \in 1..Len(left.rows) |->
                          MergedRowsFor(left.rows[i], right, key, nulls)])]

-----------------------------------------------------------------------------
(* Identity resolution (utils/country_codes.py).  pycountry is an external *)
(* reference table; the model keeps the few entries its inputs touch.      *)

COUNTRY_NAME_MAPPINGS ==
    ("Korea South" :> "Korea, Republic of") @@ ("Pitcairn Islands" :> "Pitcairn")
    @@ ("Czechia" :> "Czechia") @@ ("Svalbard" :> None)

\* pycountry.countries.get(name=...)
PycountryByName ==
    ("Albania" :> "ALB") @@ ("Korea, Republic of" :> "KOR") @@ ("Pitcairn" :> "PCN")
    @@ ("Czechia" :> "CZE") @@ ("Russian Federation" :> "RUS") @@ ("Japan" :> "JPN")

\* pycountry.countries.search_fuzzy(...)[0], where it finds something
PycountryFuzzy ==
    ("Russia" :> "RUS") @@ ("Svalbard" :> "SJM") @@ ("Korea South" :> "PRK")
    @@ ("Pitcairn Islands" :> "PCN")

\* pycountry.countries.get(common_name=...)
PycountryByCommonName == ("South Korea" :> "KOR")

\* getattr(country, 'common_name', country.name) by alpha-3 code
PycountryDisplayName ==
    ("ALB" :> "Albania") @@ ("KOR" :> "South Korea") @@ ("PCN" :> "Pitcairn")
    @@ ("CZE" :> "Czechia") @@ ("RUS" :> "Russia") @@ ("JPN" :> "Japan")
    @@ ("SJM" :> "Svalbard and Jan Mayen") @@ ("PRK" :> "North Korea")

Lookup(f, k) == IF k \in DOMAIN f THEN f[k] ELSE None

\* Fuzzy search on the name as given, tried before the manual mappings.
get_iso_alpha3_FuzzyFirst(country_name) ==
    IF country_name = "" \/ country_name = None THEN None
    ELSE IF Lookup(PycountryFuzzy, country_name) # None
         THEN Lookup(PycountryFuzzy, country_name)
    ELSE LET mapped_name == IF country_name \in DOMAIN COUNTRY_NAME_MAPPINGS
                            THEN COUNTRY_NAME_MAPPINGS[country_name]
                            ELSE country_name
         IN  IF mapped_name = None THEN None
             ELSE IF Lookup(PycountryByName, mapped_name) # None
                  THEN Lookup(PycountryByName, mapped_name)
             ELSE Lookup(PycountryByCommonName, mapped_name)

get_iso_alpha3(country_name) ==
    IF country_name = "" \/ country_name = None THEN None
    ELSE LET mapped_name == IF country_name \in DOMAIN COUNTRY_NAME_MAPPINGS
                            THEN COUNTRY_NAME_MAPPINGS[country_name]
                            ELSE country_name
         IN  IF mapped_name = None THEN None
             ELSE IF Lookup(PycountryByName, mapped_name) # None
                  THEN Lookup(PycountryByName, mapped_name)
             ELSE IF Lookup(PycountryFuzzy, mapped_name) # None
                  THEN Lookup(PycountryFuzzy, mapped_name)
             ELSE Lookup(PycountryByCommonName, mapped_name)

get_country_name(iso_code) ==
    IF iso_code = "" \/ iso_code = None THEN None
    ELSE Lookup(PycountryDisplayName, iso_code)

standardize_country_name(country_name) ==
    IF country_name = "" \/ country_name = None THEN country_name
    ELSE LET mapped == IF country_name \in DOMAIN COUNTRY_NAME_MAPPINGS
                          /\ COUNTRY_NAME_MAPPINGS[country_name] # None
                       THEN COUNTRY_NAME_MAPPINGS[country_name]
                       ELSE country_name
             iso_code == get_iso_alpha3(mapped)
         IN  IF iso_code # None /\ get_country_name(iso_code) # None
             THEN get_country_name(iso_code)
             ELSE mapped

-----------------------------------------------------------------------------
(* Source adapters (data/processors.py) *)

JoshuaColumns ==
    {"Country", "iso_alpha_3", "country_name", "population", "pct_evangelical",
     "pct_christian", "pct_unreached", "unreached_groups", "continent"}

process_joshua_project_data(df) ==
    IF IsEmpty(df) THEN df
    ELSE [cols |-> JoshuaColumns,
          rows |-> [i \in 1..Len(df.rows) |->
              LET r == df.rows[i]
              IN  [Country          |-> r["Country"],
                   iso_alpha_3      |-> get_iso_alpha3(r["Country"]),
                   country_name     |-> standardize_country_name(r["Country"]),
                   population       |-> r["Population"],
                   pct_evangelical  |-> r["Percent Evangelical"],
                   pct_christian    |-> r["Percent Christian Adherent"],
                   pct_unreached    |-> r["Percent Unreached"],
                   unreached_groups |-> r["Unreached People Groups"],
                   continent        |-> r["Continent"]]]]

process_open_doors_data(df) ==
    IF IsEmpty(df) THEN df
    ELSE [cols |-> {"country", "iso_alpha_3", "country_name", "persecution_score",
                    "persecution_rank"},
          rows |-> [i \in 1..Len(df.rows) |->
              LET r == df.rows[i]
              IN  [country           |-> r["country"],
                   iso_alpha_3       |-> get_iso_alpha3(r["country"]),
                   country_name      |-> standardize_country_name(r["country"]),
                   persecution_score |-> r["persecution_score"],
                   persecution_rank  |-> r["rank"]]]]

\* The tourism file has no iso_alpha_3 column (its ISO_Code column is only
\* renamed), so the key is always resolved from the Country name.
process_wef_ttdi_data(df) ==
    IF IsEmpty(df) THEN df
    ELSE [cols |-> {"Country", "iso_alpha_3", "country_name", "ttdi_score",
                    "ttdi_rank", "iso_code_original"},
          rows |-> [i \in 1..Len(df.rows) |->
              LET r == df.rows[i]
              IN  [Country           |-> r["Country"],
                   iso_alpha_3       |-> IF "iso_alpha_3" \in df.cols
                                         THEN r["iso_alpha_3"]
                                         ELSE get_iso_alpha3(r["Country"]),
                   country_name      |-> standardize_country_name(r["Country"]),
                   ttdi_score        |-> r["Overall_TTDI_Score"],
                   ttdi_rank         |-> r["Rank"],
                   iso_code_original |-> r["ISO_Code"]]]]

\* The table the caller passed to an adapter, as the adapter leaves it: the
\* adapters assign their new columns to `df` itself before `df.rename(...)`
\* rebinds the name to a new table.
CallerTableAfterJoshua(df) ==
    IF IsEmpty(df) THEN df
    ELSE [cols |-> df.cols \cup {"iso_alpha_3", "country_name"},
          rows |-> [i \in 1..Len(df.rows) |->
              ("iso_alpha_3" :> get_iso_alpha3(df.rows[i]["Country"]))
              @@ ("country_name" :> standardize_country_name(df.rows[i]["Country"]))
              @@ df.rows[i]]]

CallerTableAfterOpenDoors(df) ==
    IF IsEmpty(df) THEN df
    ELSE [cols |-> df.cols \cup {"iso_alpha_3", "country_name"},
          rows |-> [i \in 1..Len(df.rows) |->
              ("iso_alpha_3" :> get_iso_alpha3(df.rows[i]["country"]))
              @@ ("country_name" :> standardize_country_name(df.rows[i]["country"]))
              @@ df.rows[i]]]

CallerTableAfterWef(df) ==
    IF IsEmpty(df) THEN df
    ELSE [cols |-> df.cols \cup {"iso_alpha_3", "country_name"},
          rows |-> [i \in 1..Len(df.rows) |->
              ("country_name" :> standardize_country_name(df.rows[i]["Country"]))
              @@ (IF "iso_alpha_3" \in df.cols THEN df.rows[i]
                  ELSE ("iso_alpha_3" :> get_iso_alpha3(df.rows[i]["Country"]))
                       @@ df.rows[i])]]

-----------------------------------------------------------------------------
(* Merge engine (data/processors.py) *)

\* The activity columns of the availability table.
SportColumns(action_sports_df) == action_sports_df.cols \ {"country_name", "iso_alpha_3"}

\* merged[col].fillna(False).astype(bool) of one cell of a CSV boolean column
FillFalse(v) == v = "True"

merge_action_sports(df, action_sports_df) ==
    IF IsEmpty(action_sports_df) THEN df
    ELSE LET sport_columns == SportColumns(action_sports_df)
             subset == Subset(action_sports_df, {"iso_alpha_3"} \cup sport_columns)
             m == LeftMerge(df, subset, "iso_alpha_3", [c \in sport_columns |-> "NaN"])
         IN  [cols |-> m.cols,
              rows |-> [i \in 1..Len(m.rows) |->
                  [c \in m.cols |-> IF c \in sport_columns
                                    THEN FillFalse(m.rows[i][c])
                                    ELSE m.rows[i][c]]]]

\* merge_all_data up to the fills: the two left joins.
JoinSources(joshua_df, open_doors_df, wef_df) ==
    LET m1 == IF ~IsEmpty(open_doors_df)
              THEN LeftMerge(joshua_df,
                             Subset(open_doors_df,
                                    {"iso_alpha_3", "persecution_score", "persecution_rank"}),
                             "iso_alpha_3",
                             [c \in {"persecution_score", "persecution_rank"} |-> NaN])
              ELSE joshua_df
    IN  IF ~IsEmpty(wef_df)
        THEN LeftMerge(m1, Subset(wef_df, {"iso_alpha_3", "ttdi_score", "ttdi_rank"}),
                       "iso_alpha_3", [c \in {"ttdi_score", "ttdi_rank"} |-> NaN])
        ELSE m1

\* The fills of merge_all_data, on a frame that has a persecution_score column.
FillMerged(m) ==
    LET median_ttdi == IF "ttdi_score" \in m.cols THEN Median(Column(m, "ttdi_score"))
                       ELSE NaN
    IN  [cols |-> m.cols \cup {"legal_openness"},
         rows |-> [i \in 1..Len(m.rows) |->
             LET r == m.rows[i]
                 p == FillNa(r["persecution_score"], F(0))
             IN  [c \in m.cols \cup {"legal_openness"} |->
                     IF c = "persecution_score" THEN p
                     ELSE IF c = "legal_openness" THEN RSub(F(100), p)
                     ELSE IF c = "ttdi_score" THEN FillNa(r[c], median_ttdi)
                     ELSE r[c]]]]

\* merge_all_data: [status |-> "ok", df |-> the merged frame], or the exception
\* it raises.  With an empty base frame the first join (or the persecution
\* fill) finds no iso_alpha_3 (persecution_score) column; without persecution
\* rows the fill finds no persecution_score column: a KeyError either way.
merge_all_data(jp, od, wef, asp) ==
    LET joshua_df == process_joshua_project_data(jp)
        open_doors_df == process_open_doors_data(od)
        wef_df == process_wef_ttdi_data(wef)
    IN  IF IsEmpty(joshua_df) \/ IsEmpty(open_doors_df)
        THEN [status |-> "KeyError", df |-> EmptyFrame]
        ELSE [status |-> "ok",
              df |-> merge_action_sports(
                         FillMerged(JoinSources(joshua_df, open_doors_df, wef_df)), asp)]

-----------------------------------------------------------------------------
(* Normalization utilities (utils/normalization.py) *)

\* An optional float argument left at its default None.
NoneR == << >>

\* a == b on floats: false when either is NaN.
REq(a, b) == ~IsNaN(a) /\ ~IsNaN(b) /\ a = b

SeriesMin(s) == RNeg(SeriesMax([i \in 1..Len(s) |-> RNeg(s[i])]))

\* The inverted value taken as target_max minus the scaled value.
min_max_normalize_InvertScaled(values, min_val, max_val, target_min, target_max, invert) ==
    LET mn == IF min_val = NoneR THEN SeriesMin(values) ELSE min_val
        mx == IF max_val = NoneR THEN SeriesMax(values) ELSE max_val
    IN  IF REq(mx, mn) THEN [i \in 1..Len(values) |-> target_max]
        ELSE [i \in 1..Len(values) |->
                 LET n0 == RDiv(RSub(values[i], mn), RSub(mx, mn))
                     scaled0 == RAdd(RMul(n0, RSub(target_max, target_min)), target_min)
                     scaled == IF invert THEN RSub(target_max, scaled0) ELSE scaled0
                 IN  Clip(scaled, target_min, target_max)]

\* The function without its guard against max_val == min_val.
min_max_normalize_NoGuard(values, min_val, max_val, target_min, target_max, invert) ==
    LET mn == IF min_val = NoneR THEN SeriesMin(values) ELSE min_val
        mx == IF max_val = NoneR THEN SeriesMax(values) ELSE max_val
    IN  [i \in 1..Len(values) |->
            LET n0 == RDiv(RSub(values[i], mn), RSub(mx, mn))
                normalized == IF invert THEN RSub(F(1), n0) ELSE n0
                scaled == RAdd(RMul(normalized, RSub(target_max, target_min)),
                               target_min)
            IN  Clip(scaled, target_min, target_max)]

min_max_normalize(values, min_val, max_val, target_min, target_max, invert) ==
    LET mn == IF min_val = NoneR THEN SeriesMin(values) ELSE min_val
        mx == IF max_val = NoneR THEN SeriesMax(values) ELSE max_val
    IN  IF REq(mx, mn) THEN [i \in 1..Len(values) |-> target_max]
        ELSE [i \in 1..Len(values) |->
                 LET n0 == RDiv(RSub(values[i], mn), RSub(mx, mn))
                     normalized == IF invert THEN RSub(F(1), n0) ELSE n0
                     scaled == RAdd(RMul(normalized, RSub(target_max, target_min)),
                                    target_min)
                 IN  Clip(scaled, target_min, target_max)]

-----------------------------------------------------------------------------
(* Component scores (data/processors.py) *)

calculate_religious_need_score(df) ==
    [i \in 1..Len(df.rows) |->
        LET r == df.rows[i]
            pct_non_christian == RSub(F(100), FillNa(r["pct_christian"], F(50)))
            pct_unreached == FillNa(r["pct_unreached"], F(50))
            need_score == RAdd(RMul(Q(6, 10), pct_unreached),
                               RMul(Q(4, 10), pct_non_christian))
        IN  Clip(need_score, F(0), F(100))]

\* unreached / population * 1_000_000 per row; a population of 0 is not
\* replaced (only a null one is), so the division gives inf or NaN.
UnreachedPerMillion(df) ==
    [i \in 1..Len(df.rows) |->
        LET unreached == FillNa(df.rows[i]["unreached_groups"], F(0))
            population == FillNa(df.rows[i]["population"], F(1))
        IN  RMul(RDiv(unreached, population), F(1000000))]

calculate_missionary_gap_score(df) ==
    LET unreached_per_million == UnreachedPerMillion(df)
        max_upm == SeriesMax(unreached_per_million)
    IN  [i \in 1..Len(df.rows) |->
            LET low_evangelical ==
                    RSub(F(100), RMul(FillNa(df.rows[i]["pct_evangelical"], F(0)), F(10)))
                unreached_normalized ==
                    IF RGt(max_upm, F(0))
                    THEN RMul(RDiv(unreached_per_million[i], max_upm), F(100))
                    ELSE F(0)
                gap_score == RAdd(RMul(Q(1, 2), unreached_normalized),
                                  RMul(Q(1, 2), Clip(low_evangelical, F(0), F(100))))
            IN  Clip(gap_score, F(0), F(100))]

\* Legal openness as both outreach scorers read it.
LegalOpennessSeries(df) ==
    [i \in 1..Len(df.rows) |->
        IF "legal_openness" \in df.cols THEN FillNa(df.rows[i]["legal_openness"], F(100))
        ELSE IF "persecution_score" \in df.cols
             THEN RSub(F(100), FillNa(df.rows[i]["persecution_score"], F(0)))
        ELSE F(100)]

-----------------------------------------------------------------------------
(* Default scorers (scoring/action_sports.py, scoring/outreach.py) *)

\* The rescaling done from the least and greatest TTDI value of the table.
TtdiNormalized_Observed(df) ==
    LET med == Median(Column(df, "ttdi_score"))
    IN  min_max_normalize([i \in 1..Len(df.rows) |-> FillNa(df.rows[i]["ttdi_score"], med)],
                          NoneR, NoneR, F(0), F(100), FALSE)

\* ttdi_score with its nulls filled by the column median, rescaled from [1, 6].
TtdiNormalized(df) ==
    LET med == Median(Column(df, "ttdi_score"))
    IN  min_max_normalize([i \in 1..Len(df.rows) |-> FillNa(df.rows[i]["ttdi_score"], med)],
                          F(1), F(6), F(0), F(100), FALSE)

ActionSportsScorer_calculate(df) ==
    IF "ttdi_score" \notin df.cols THEN [i \in 1..Len(df.rows) |-> F(50)]
    ELSE TtdiNormalized(df)

calculate_action_sports_score(df) == ActionSportsScorer_calculate(df)

OutreachWeights == [religious_need |-> Q(40, 100), missionary_gap |-> Q(25, 100),
                    legal_openness |-> Q(35, 100)]

\* OutreachWeights(religious_need=w[1], missionary_gap=w[2], legal_openness=w[3])
AsOutreachWeights(w) ==
    [religious_need |-> w[1], missionary_gap |-> w[2], legal_openness |-> w[3]]

\* OutreachScorer(weights).calculate(df): the weights are used as given.
OutreachScorer_calculate(df, weights) ==
    LET religious_need == calculate_religious_need_score(df)
        missionary_gap == calculate_missionary_gap_score(df)
        legal_openness == LegalOpennessSeries(df)
    IN  [i \in 1..Len(df.rows) |->
            Clip(RAdd(RAdd(RMul(weights.religious_need,
                                Clip(religious_need[i], F(0), F(100))),
                           RMul(weights.missionary_gap,
                                Clip(missionary_gap[i], F(0), F(100)))),
                      RMul(weights.legal_openness, Clip(legal_openness[i], F(0), F(100)))),
                 F(0), F(100))]

calculate_outreach_score(df) == OutreachScorer_calculate(df, OutreachWeights)

-----------------------------------------------------------------------------
(* Customizable scorers (app.py) *)

\* "Normalize weights to sum to 1": skipped when the total is not positive.
NormalizeWeights(w) ==
    LET total_weight == RAdd(RAdd(w[1], w[2]), w[3])
    IN  IF RGt(total_weight, F(0))
        THEN [k \in 1..3 |-> RDiv(w[k], total_weight)]
        ELSE w

\* w1*c1.clip(0,100) + w2*c2.clip(0,100) + w3*c3.clip(0,100), clipped
WeightedSum3(w, c1, c2, c3) ==
    Clip(RAdd(RAdd(RMul(w[1], Clip(c1, F(0), F(100))), RMul(w[2], Clip(c2, F(0), F(100)))),
              RMul(w[3], Clip(c3, F(0), F(100)))),
         F(0), F(100))

continent_bonuses ==
    ("Oceania" :> 20) @@ ("Latin America" :> 15) @@ ("Africa" :> 15)
    @@ ("Europe" :> 10) @@ ("Asia" :> 10) @@ ("North America" :> 10)

NaturalResources(df, i) ==
    IF "continent" \in df.cols /\ df.rows[i]["continent"] \in DOMAIN continent_bonuses
    THEN F(60 + continent_bonuses[df.rows[i]["continent"]])
    ELSE F(60)

SafetySeries(df) ==
    [i \in 1..Len(df.rows) |->
        IF "persecution_score" \in df.cols
        THEN RSub(F(100), FillNa(df.rows[i]["persecution_score"], F(0)))
        ELSE IF "legal_openness" \in df.cols
             THEN FillNa(df.rows[i]["legal_openness"], F(100))
        ELSE F(75)]

\* w = <<tourism_infra_weight, safety_weight, natural_resources_weight>>
calculate_action_sports_score_weighted(df, w) ==
    LET tourism_infra == IF "ttdi_score" \in df.cols THEN TtdiNormalized(df)
                         ELSE [i \in 1..Len(df.rows) |-> F(50)]
        safety == SafetySeries(df)
        nw == NormalizeWeights(w)
    IN  [i \in 1..Len(df.rows) |->
            WeightedSum3(nw, tourism_infra[i], safety[i], NaturalResources(df, i))]

\* w = <<religious_need_weight, missionary_gap_weight, legal_openness_weight>>
calculate_outreach_score_weighted(df, w) ==
    LET religious_need == calculate_religious_need_score(df)
        missionary_gap == calculate_missionary_gap_score(df)
        legal_openness == LegalOpennessSeries(df)
        nw == NormalizeWeights(w)
    IN  [i \in 1..Len(df.rows) |->
            WeightedSum3(nw, religious_need[i], missionary_gap[i], legal_openness[i])]

-----------------------------------------------------------------------------
(* Combined score (scoring/combined.py, utils/normalization.py, app.py) *)

\* The integer square root of n >= 0, by bisection on lo <= sqrt(n) < hi.
RECURSIVE ISqrtIn(_, _, _)
ISqrtIn(n, lo, hi) ==
    IF hi - lo <= 1 THEN lo
    ELSE LET mid == (lo + hi) \div 2
         IN  IF mid * mid <= n THEN ISqrtIn(n, mid, hi) ELSE ISqrtIn(n, lo, mid)

ISqrt(n) == ISqrtIn(n, 0, IF n < 46340 THEN n + 1 ELSE 46340)

\* np.sqrt: exact on a ratio of perfect squares, else truncated to 2 decimals;
\* NaN for a negative or NaN argument.
RSqrt(x) ==
    IF IsNaN(x) \/ x[1] < 0 THEN NaN
    ELSE IF x[2] = 0 THEN x
    ELSE IF ISqrt(x[1]) * ISqrt(x[1]) = x[1] /\ ISqrt(x[2]) * ISqrt(x[2]) = x[2]
         THEN Norm(ISqrt(x[1]), ISqrt(x[2]))
    ELSE Norm(ISqrt((x[1] * 10000) \div x[2]), 100)


\* action * outreach without the division by 100
Multiply_NoScale(a, o) == RMul(a, o)

Multiply(a, o) == RDiv(RMul(a, o), F(100))
Average(a, o) == RDiv(RAdd(a, o), F(2))
GeometricMean(a, o) == RSqrt(RMul(a, o))

Raised(exc) == [status |-> exc, values |-> << >>]
Returned(values) == [status |-> "ok", values |-> values]

\* scoring/combined.py
calculate_combined_score(action_score, outreach_score, method) ==
    LET n == Len(action_score)
    IN  IF method = "multiply"
        THEN Returned([i \in 1..n |->
                 Clip(Multiply(action_score[i], outreach_score[i]), F(0), F(100))])
        ELSE IF method = "average"
        THEN Returned([i \in 1..n |->
                 Clip(Average(action_score[i], outreach_score[i]), F(0), F(100))])
        ELSE IF method = "geometric_mean"
        THEN Returned([i \in 1..n |->
                 Clip(GeometricMean(action_score[i], outreach_score[i]), F(0), F(100))])
        ELSE Raised("ValueError")

\* sum(f[k] for k in keys), exact
RECURSIVE SumOver(_, _)
SumOver(keys, f) ==
    IF keys = {} THEN F(0)
    ELSE LET k == CHOOSE x \in keys : TRUE
         IN  RAdd(f[k], SumOver(keys \ {k}, f))

\* abs(total_weight - 1.0) > 0.01
OffByMoreThanTolerance(total_weight) ==
    \/ RGt(RSub(total_weight, F(1)), Q(1, 100))
    \/ RGt(RSub(F(1), total_weight), Q(1, 100))

\* utils/normalization.py.  scores and weights are dicts (functions on names);
\* the scores' series have one length.  Dividing the float weights by a zero
\* total raises ZeroDivisionError; an empty scores dict raises StopIteration.
combine_weighted_scores(scores, weights, normalize_output) ==
    LET total_weight == SumOver(DOMAIN weights, weights)
        rescale == OffByMoreThanTolerance(total_weight)
        w == IF rescale THEN [k \in DOMAIN weights |-> RDiv(weights[k], total_weight)]
             ELSE weights
        n == Len(scores[CHOOSE k \in DOMAIN scores : TRUE])
        combined == [i \in 1..n |->
                        SumOver(DOMAIN scores,
                                [k \in DOMAIN scores |->
                                    RMul(scores[k][i],
                                         IF k \in DOMAIN w THEN w[k] ELSE F(0))])]
    IN  IF rescale /\ total_weight = F(0) THEN Raised("ZeroDivisionError")
        ELSE IF DOMAIN scores = {} THEN Raised("StopIteration")
        ELSE IF normalize_output
        THEN Returned(min_max_normalize(combined, NoneR, NoneR, F(0), F(100), FALSE))
        ELSE Returned(combined)

\* utils/normalization.py: the same function under the same name
normalization_calculate_combined_score(score_a, score_b, method) ==
    LET n == Len(score_a)
    IN  IF method = "multiply"
        THEN Returned([i \in 1..n |-> Clip(Multiply(score_a[i], score_b[i]), F(0), F(100))])
        ELSE IF method = "average"
        THEN Returned([i \in 1..n |-> Clip(Average(score_a[i], score_b[i]), F(0), F(100))])
        ELSE IF method = "geometric_mean"
        THEN Returned([i \in 1..n |->
                 Clip(GeometricMean(score_a[i], score_b[i]), F(0), F(100))])
        ELSE Raised("ValueError")

\* (action_weight, outreach_weight) "normalized" when their total is positive
NormalizeWeights2(w) ==
    LET total == RAdd(w[1], w[2])
    IN  IF RGt(total, F(0)) THEN <<RDiv(w[1], total), RDiv(w[2], total)>> ELSE w

\* app.py: any method other than "weighted_average" multiplies.
calculate_combined_score_weighted(action_score, outreach_score, w, method) ==
    LET n == Len(action_score)
        nw == NormalizeWeights2(w)
    IN  IF method = "multiply"
        THEN Returned([i \in 1..n |->
                 Clip(Multiply(action_score[i], outreach_score[i]), F(0), F(100))])
        ELSE IF method = "weighted_average"
        THEN Returned([i \in 1..n |->
                 Clip(RAdd(RMul(nw[1], action_score[i]), RMul(nw[2], outreach_score[i])),
                      F(0), F(100))])
        ELSE Returned([i \in 1..n |->
                 Clip(Multiply(action_score[i], outreach_score[i]), F(0), F(100))])

-----------------------------------------------------------------------------
(* Ranking engine (scoring/combined.py, app.py) *)

ScoreColumns == {"action_sports_score", "outreach_score", "combined_score"}
RankColumns == {"action_sports_rank", "outreach_rank", "combined_rank"}
Dimensions == {"action_sports", "outreach", "combined"}

ScoreColumnOf == ("action_sports" :> "action_sports_score")
                 @@ ("outreach" :> "outreach_score") @@ ("combined" :> "combined_score")

\* f"{score_type}_rank"
RankColumnOf == ("action_sports" :> "action_sports_rank") @@ ("outreach" :> "outreach_rank")
                @@ ("combined" :> "combined_rank") @@ ("overall" :> "overall_rank")


\* Series.rank(ascending=False, method='first'): ties broken by position.
RankOf_First(s, i) ==
    IF IsNaN(s[i]) THEN 0
    ELSE 1 + Cardinality({j \in 1..Len(s) : RGt(s[j], s[i])})
           + Cardinality({j \in 1..(i - 1) : s[j] = s[i]})

\* Series.rank(ascending=True, method='min'): the lowest score ranked first.
RankOf_Ascending(s, i) ==
    IF IsNaN(s[i]) THEN 0
    ELSE 1 + Cardinality({j \in 1..Len(s) : RLt(s[j], s[i])})

\* Series.rank(ascending=False, method='min'): 1 + the number of strictly
\* greater values; the rank of NaN is NaN (0 here).
RankOf(s, i) ==
    IF IsNaN(s[i]) THEN 0 ELSE 1 + Cardinality({j \in 1..Len(s) : RGt(s[j], s[i])})

RankMin(s) == [i \in 1..Len(s) |-> RankOf(s, i)]

HasNaN(s) == \E i \in 1..Len(s) : IsNaN(s[i])

\* DataFrame.sort_values(col) on an integer column: ascending; equal keys keep
\* their order (numpy's quicksort is an insertion sort below 16 elements).
RECURSIVE InsertByKey(_, _, _)
InsertByKey(x, rows, col) ==
    IF rows = << >> THEN <<x>>
    ELSE IF x[col] < Head(rows)[col] THEN <<x>> \o rows
    ELSE <<Head(rows)>> \o InsertByKey(x, Tail(rows), col)

RECURSIVE SortRows(_, _)
SortRows(rows, col) ==
    IF rows = << >> THEN << >>
    ELSE InsertByKey(rows[Len(rows)], SortRows(SubSeq(rows, 1, Len(rows) - 1), col), col)


\* The frame left in its input order.
sort_values_Unsorted(df, col) == df

sort_values(df, col) == [cols |-> df.cols, rows |-> SortRows(df.rows, col)]

\* The frame with the three score columns and the three rank columns set.
WithScoresAndRanks(df, action, outreach, combined) ==
    [cols |-> df.cols \cup ScoreColumns \cup RankColumns,
     rows |-> [i \in 1..Len(df.rows) |->
         [action_sports_score |-> action[i],
          outreach_score      |-> outreach[i],
          combined_score      |-> combined[i],
          action_sports_rank  |-> RankOf(action, i),
          outreach_rank       |-> RankOf(outreach, i),
          combined_rank       |-> RankOf(combined, i)] @@ df.rows[i]]]

\* result[score].round(1) on the three score columns
RoundScores(df) ==
    [cols |-> df.cols,
     rows |-> [i \in 1..Len(df.rows) |->
         [c \in df.cols |-> IF c \in ScoreColumns THEN Round1(df.rows[i][c])
                            ELSE df.rows[i][c]]]]

\* Ranks, rounding and the final sort, from the three score series.  astype(int)
\* raises on a NaN rank.  `unrounded` is a history value: the frame as it was
\* before the scores were rounded, in the order of the returned frame.
RankRoundSort(df, action, outreach, combined) ==
    IF HasNaN(action) \/ HasNaN(outreach) \/ HasNaN(combined)
    THEN [status |-> "ValueError", df |-> EmptyFrame, unrounded |-> EmptyFrame]
    ELSE LET ranked == WithScoresAndRanks(df, action, outreach, combined)
         IN  [status    |-> "ok",
              df        |-> sort_values(RoundScores(ranked), "combined_rank"),
              unrounded |-> sort_values(ranked, "combined_rank")]

\* The two scores rounded to 1 decimal before they are combined.
generate_rankings_RoundFirst(df) ==
    LET action == calculate_action_sports_score(df)
        outreach == calculate_outreach_score(df)
        combined == calculate_combined_score([i \in 1..Len(action) |-> Round1(action[i])],
                                             [i \in 1..Len(outreach) |-> Round1(outreach[i])],
                                             "multiply")
    IN  RankRoundSort(df, action, outreach, combined.values)

generate_rankings(df) ==
    LET action == calculate_action_sports_score(df)
        outreach == calculate_outreach_score(df)
        combined == calculate_combined_score(action, outreach, "multiply")
    IN  RankRoundSort(df, action, outreach, combined.values)

\* aw, ow, cw: action_sports_weights, outreach_weights, combined_weights
generate_rankings_with_weights(df, aw, ow, cw, combination_method) ==
    LET action == calculate_action_sports_score_weighted(df, aw)
        outreach == calculate_outreach_score_weighted(df, ow)
        combined == calculate_combined_score_weighted(action, outreach, cw,
                                                      combination_method)
    IN  RankRoundSort(df, action, outreach, combined.values)

\* The n first rows in the frame's own order.
nsmallest_Head(df, n, col) ==
    [cols |-> df.cols,
     rows |-> SubSeq(df.rows, 1, IF n < Len(df.rows) THEN n ELSE Len(df.rows))]

\* DataFrame.nsmallest(n, col): the n first rows in ascending order of col,
\* equal values in their original order.
nsmallest(df, n, col) ==
    LET sorted == SortRows(df.rows, col)
    IN  [cols |-> df.cols,
         rows |-> SubSeq(sorted, 1, IF n < Len(sorted) THEN n ELSE Len(sorted))]

\* DataFrame.head(n)
head(df, n) ==
    [cols |-> df.cols, rows |-> SubSeq(df.rows, 1, IF n < Len(df.rows) THEN n ELSE Len(df.rows))]

\* scoring/combined.py
get_top_countries(df, score_type, top_n) ==
    IF RankColumnOf[score_type] \notin df.cols
    THEN [status |-> "ValueError", df |-> EmptyFrame]
    ELSE [status |-> "ok", df |-> nsmallest(df, top_n, RankColumnOf[score_type])]

\* app.py
app_get_top_countries(df, score_type, top_n) ==
    IF RankColumnOf[score_type] \notin df.cols
    THEN [status |-> "ok", df |-> head(df, top_n)]
    ELSE [status |-> "ok", df |-> nsmallest(df, top_n, RankColumnOf[score_type])]

-----------------------------------------------------------------------------
(* Pipeline entry points (scoring/combined.py, scripts/refresh_data.py,   *)
(* app.py), each from the point where its call of merge_all_data() has     *)
(* ended with merged_df (a frame, or the exception raised).  A result is   *)
(* [status, df, saved]: how the entry point ended ("ok", the exception it  *)
(* let through, "exit 1" or "st.error"), the table it holds at the end,    *)
(* and whether it wrote the rankings file.                                 *)

Outcome(status, df, saved) == [status |-> status, df |-> df, saved |-> saved]

\* An except clause around the pipeline that hands back an empty table.
build_and_save_rankings_Swallow(merged_df) ==
    LET rankings == generate_rankings(merged_df.df)
    IN  IF merged_df.status # "ok" THEN Outcome("ok", EmptyFrame, TRUE)
        ELSE IF rankings.status # "ok" THEN Outcome("ok", EmptyFrame, TRUE)
        ELSE Outcome("ok", rankings.df, TRUE)

\* scoring/combined.py
build_and_save_rankings(merged_df) ==
    LET rankings == generate_rankings(merged_df.df)
    IN  IF merged_df.status # "ok" THEN Outcome(merged_df.status, EmptyFrame, FALSE)
        ELSE IF rankings.status # "ok" THEN Outcome(rankings.status, EmptyFrame, FALSE)
        ELSE Outcome("ok", rankings.df, TRUE)

\* scripts/refresh_data.py main: sys.exit(1) on an empty merge
refresh_data_main(merged_df) ==
    LET rankings_df == generate_rankings(merged_df.df)
    IN  IF merged_df.status # "ok" THEN Outcome(merged_df.status, EmptyFrame, FALSE)
        ELSE IF IsEmpty(merged_df.df) THEN Outcome("exit 1", EmptyFrame, FALSE)
        ELSE IF rankings_df.status # "ok" THEN Outcome(rankings_df.status, EmptyFrame, FALSE)
        ELSE Outcome("ok", rankings_df.df, TRUE)

\* app.py load_base_data
load_base_data(merged_df) ==
    IF merged_df.status # "ok" THEN Outcome(merged_df.status, EmptyFrame, FALSE)
    ELSE IF IsEmpty(merged_df.df) THEN Outcome("st.error", EmptyFrame, FALSE)
    ELSE Outcome("ok", merged_df.df, FALSE)

\* app.py main up to the rankings, with the sidebar weights aw, ow, cw
app_main(merged_df, aw, ow, cw, combination_method) ==
    LET base_df == load_base_data(merged_df)
        df == generate_rankings_with_weights(merged_df.df, aw, ow, cw, combination_method)
    IN  IF base_df.status \notin {"ok", "st.error"} THEN base_df
        ELSE IF IsEmpty(base_df.df) THEN Outcome("st.error", EmptyFrame, FALSE)
        ELSE IF df.status # "ok" THEN Outcome(df.status, EmptyFrame, FALSE)
        ELSE Outcome("ok", df.df, FALSE)

\* data/loaders.py: DataFrame.to_parquet(path, index=False) keeps the columns,
\* the rows in their order and every value; only the index is dropped, and a
\* frame of the model has none.  A file is [exists, df].
save_processed_data(df) == [exists |-> TRUE, df |-> [cols |-> df.cols, rows |-> df.rows]]

NoFile == [exists |-> FALSE, df |-> EmptyFrame]

\* data/loaders.py: the frame read back from the file; found is FALSE where
\* the code returns None.
load_processed_data(file) ==
    IF ~file.exists THEN [found |-> FALSE, df |-> EmptyFrame]
    ELSE [found |-> TRUE, df |-> file.df]

\* The rankings file after build_and_save_rankings or the refresh script ran
\* on merged_df.
RankingsFile(merged_df) ==
    LET done == build_and_save_rankings(merged_df)
    IN  IF done.saved THEN save_processed_data(done.df) ELSE NoFile

-----------------------------------------------------------------------------
(* The inputs the model draws from *)

JpRow(country, continent, population, pct_ev, pct_chr, pct_unr, groups) ==
    ("Country" :> country) @@ ("Continent" :> continent) @@ ("Population" :> population)
    @@ ("Percent Evangelical" :> pct_ev) @@ ("Percent Christian Adherent" :> pct_chr)
    @@ ("Percent Unreached" :> pct_unr) @@ ("Unreached People Groups" :> groups)

JpColumns ==
    {"Country", "Continent", "Population", "Percent Evangelical",
     "Percent Christian Adherent", "Percent Unreached", "Unreached People Groups"}

\* Rows of the religious-demographics file: three ordinary countries, one that
\* differs from another by 0.1 point of one percentage, a territory with no
\* ISO code and no figures, and an uninhabited one.
JpCatalogue ==
    << JpRow("Albania", "Europe", F(10000000), F(12), F(90), F(0), F(0)),
       JpRow("Korea South", "Asia", F(1000000), F(1), F(10), F(60), F(12)),
       JpRow("Russia", "Europe", F(5000000), F(1), F(50), F(30), F(30)),
       JpRow("Czechia", "Europe", F(5000000), F(1), F(50), Q(301, 10), F(30)),
       JpRow("Svalbard", None, NaN, NaN, NaN, NaN, NaN),
       JpRow("Pitcairn Islands", "Oceania", F(0), F(0), F(100), F(0), F(0)) >>

\* The files the model reads: up to MaxRows distinct rows of the catalogue, in
\* catalogue order or in reverse order (every order, for one or two rows).
Monotone(ix) ==
    \/ \A i \in 1..(Len(ix) - 1) : ix[i] < ix[i + 1]
    \/ \A i \in 1..(Len(ix) - 1) : ix[i] > ix[i + 1]

JpFrames ==
    {[cols |-> IF ix = << >> THEN {} ELSE JpColumns,
      rows |-> [i \in 1..Len(ix) |-> JpCatalogue[ix[i]]]] :
        ix \in {jx \in UNION {[1..k -> 1..Len(JpCatalogue)] : k \in 0..MaxRows} :
                   Monotone(jx)}}

OdRow(country, score, rank) ==
    ("country" :> country) @@ ("persecution_score" :> score) @@ ("rank" :> rank)

OdColumns == {"country", "persecution_score", "rank"}

OdFrame1 ==
    [cols |-> OdColumns,
     rows |-> <<OdRow("Korea South", F(80), F(1)), OdRow("Russia", F(40), F(2))>>]

\* "Atlantis" resolves to no ISO code.
OdFrame2 ==
    [cols |-> OdColumns,
     rows |-> <<OdRow("Atlantis", F(70), F(1)), OdRow("Albania", F(55), F(2))>>]

\* Two spellings of one country: both rows resolve to RUS.
OdFrame3 ==
    [cols |-> OdColumns,
     rows |-> <<OdRow("Russia", F(40), F(1)), OdRow("Russian Federation", F(45), F(2))>>]

OdFrames == {EmptyFrame, OdFrame1, OdFrame2, OdFrame3}

WefRow(rank, country, iso_code, score) ==
    ("Rank" :> rank) @@ ("Country" :> country) @@ ("ISO_Code" :> iso_code)
    @@ ("Overall_TTDI_Score" :> score)

WefColumns == {"Rank", "Country", "ISO_Code", "Overall_TTDI_Score"}

WefFrame1 ==
    [cols |-> WefColumns,
     rows |-> <<WefRow(F(1), "Atlantis", "ATL", F(5)),
                WefRow(F(2), "Albania", "ALB", Q(9, 2)),
                WefRow(F(3), "Korea South", "KOR", Q(352, 100))>>]

\* A tourism file that lists none of the base countries.
WefFrame2 == [cols |-> WefColumns, rows |-> <<WefRow(F(1), "Japan", "JPN", Q(52, 10))>>]

WefFrames == {EmptyFrame, WefFrame1, WefFrame2}

AsRow(country_name, iso, surfing, skiing) ==
    [country_name |-> country_name, iso_alpha_3 |-> iso, surfing |-> surfing,
     skiing |-> skiing]

AsFrame1 ==
    [cols |-> {"country_name", "iso_alpha_3", "surfing", "skiing"},
     rows |-> <<AsRow("Albania", "ALB", "True", "False"),
                AsRow("South Korea", "KOR", "NaN", "True"),
                AsRow("Nowhere", None, "True", "True")>>]

AsFrames == {EmptyFrame, AsFrame1}

DefaultActionWeights == <<Q(40, 100), Q(30, 100), Q(30, 100)>>
DefaultOutreachWeights == <<Q(40, 100), Q(25, 100), Q(35, 100)>>
DefaultCombinedWeights == <<Q(1, 2), Q(1, 2)>>

\* <<tourism_infra, safety, natural_resources>>
ActionWeightChoices ==
    { DefaultActionWeights, <<F(0), F(0), F(0)>>, <<Q(1, 4), F(1), F(0)>>,
      <<F(1), F(0), F(0)>> }

\* <<religious_need, missionary_gap, legal_openness>>
OutreachWeightChoices ==
    { DefaultOutreachWeights, <<F(0), F(0), F(0)>>, <<Q(1, 4), F(1), F(0)>> }

\* The sidebar's component weights: <<action-sports weights, outreach weights>>
ComponentWeightChoices ==
    { <<DefaultActionWeights, DefaultOutreachWeights>>,
      <<<<F(0), F(0), F(0)>>, <<Q(1, 4), F(1), F(0)>>>>,
      <<<<Q(1, 4), F(1), F(0)>>, <<F(0), F(0), F(0)>>>>,
      <<<<Q(1, 4), F(1), F(0)>>, <<Q(1, 4), F(1), F(0)>>>> }

\* <<combination_method, <<action_sports, outreach>> combined weights>>: the two
\* methods of the sidebar, and two tags it does not offer.
CombinationChoices ==
    { <<"multiply", DefaultCombinedWeights>>,
      <<"weighted_average", DefaultCombinedWeights>>,
      <<"weighted_average", <<F(0), F(0)>>>>,
      <<"weighted_average", <<F(1), Q(1, 4)>>>>,
      <<"average", DefaultCombinedWeights>>,
      <<"harmonic", DefaultCombinedWeights>> }

ScaleFactors == {F(10), Q(1, 2), F(3)}

\* score_type arguments: the three ranked dimensions and one that is none
ScoreTypeChoices == {"combined", "action_sports", "outreach", "overall"}

TopNChoices == {1, 2, 10}

\* method arguments of the two library combinators: the three they know,
\* the app's own tag and one nobody knows
MethodChoices == {"multiply", "average", "geometric_mean", "weighted_average", "harmonic"}

\* Score values the combinators are called on
ScoreGrid == {F(0), F(50), Q(667, 10), F(100)}

\* Arguments of min_max_normalize: values below, inside and above the (1, 6)
\* bounds, and a missing one; bounds left to the data, given, given equal;
\* target ranges starting at 0 and not.
ValueGrid == {NaN, F(1), F(3), Q(7, 2), F(6), F(8)}

BoundChoices == {<<NoneR, NoneR>>, <<F(1), F(6)>>, <<F(3), F(3)>>, <<NoneR, F(6)>>}

TargetChoices == {<<F(0), F(100)>>, <<F(10), F(20)>>, <<F(0), F(1)>>}

\* Arguments of combine_weighted_scores: two named series, and weights that
\* sum to 1, to 1.005, to 0.995, to 10, to 0, or leave a name out.
ScoreNames == {"action_sports", "outreach"}

WeightMapChoices ==
    { ("action_sports" :> Q(1, 2)) @@ ("outreach" :> Q(1, 2)),
      ("action_sports" :> Q(6, 10)) @@ ("outreach" :> Q(405, 1000)),
      ("action_sports" :> Q(1, 2)) @@ ("outreach" :> Q(495, 1000)),
      ("action_sports" :> F(4)) @@ ("outreach" :> F(6)),
      ("action_sports" :> F(0)) @@ ("outreach" :> F(0)),
      ("action_sports" :> F(1)) }

Scaled(c, w) == [k \in 1..Len(w) |-> RMul(c, w[k])]

\* app.py: st.session_state, a dict from the widgets' keys to their values.
\* EmptySession is the session before the script's first run.
EmptySession == [k \in {} |-> F(0)]

\* st.session_state[key] = value
SetItem(session, key, value) ==
    [k \in DOMAIN session \cup {key} |-> IF k = key THEN value ELSE session[k]]

\* del st.session_state[key] for every key of keys
DelItems(session, keys) == [k \in DOMAIN session \ keys |-> session[k]]

\* app.py: get_default_weights()
get_default_weights ==
    [ action_sports_weights |->
          [tourism_infra |-> Q(40, 100), safety |-> Q(30, 100),
           natural_resources |-> Q(30, 100)],
      outreach_weights |->
          [religious_need |-> Q(40, 100), missionary_gap |-> Q(25, 100),
           legal_openness |-> Q(35, 100)],
      combined_weights |-> [action_sports |-> Q(1, 2), outreach |-> Q(1, 2)],
      combination_method |-> "multiply" ]

\* A variant of reset_weights_callback that assigns the two combined weights
\* whether or not their keys exist.
reset_weights_callback_Unconditional(session) ==
    LET defaults == get_default_weights
        s1 == SetItem(session, "weight_tourism_infra",
                      defaults.action_sports_weights.tourism_infra)
        s2 == SetItem(s1, "weight_safety", defaults.action_sports_weights.safety)
        s3 == SetItem(s2, "weight_natural_resources",
                      defaults.action_sports_weights.natural_resources)
        s4 == SetItem(s3, "weight_religious_need",
                      defaults.outreach_weights.religious_need)
        s5 == SetItem(s4, "weight_missionary_gap",
                      defaults.outreach_weights.missionary_gap)
        s6 == SetItem(s5, "weight_legal_openness",
                      defaults.outreach_weights.legal_openness)
        s7 == SetItem(s6, "combination_method", defaults.combination_method)
        s8 == SetItem(s7, "weight_action_combined",
                      defaults.combined_weights.action_sports)
    IN  SetItem(s8, "weight_outreach_combined", defaults.combined_weights.outreach)

\* app.py: reset_weights_callback(), the on_click callback of the
\* "Reset to Defaults" button, as a function of the session it runs on.
reset_weights_callback(session) ==
    LET defaults == get_default_weights
        s1 == SetItem(session, "weight_tourism_infra",
                      defaults.action_sports_weights.tourism_infra)
        s2 == SetItem(s1, "weight_safety", defaults.action_sports_weights.safety)
        s3 == SetItem(s2, "weight_natural_resources",
                      defaults.action_sports_weights.natural_resources)
        s4 == SetItem(s3, "weight_religious_need",
                      defaults.outreach_weights.religious_need)
        s5 == SetItem(s4, "weight_missionary_gap",
                      defaults.outreach_weights.missionary_gap)
        s6 == SetItem(s5, "weight_legal_openness",
                      defaults.outreach_weights.legal_openness)
        s7 == SetItem(s6, "combination_method", defaults.combination_method)
        s8 == IF "weight_action_combined" \in DOMAIN s7
              THEN SetItem(s7, "weight_action_combined",
                           defaults.combined_weights.action_sports)
              ELSE s7
    IN  IF "weight_outreach_combined" \in DOMAIN s8
        THEN SetItem(s8, "weight_outreach_combined",
                     defaults.combined_weights.outreach)
        ELSE s8

\* A keyed widget: it shows the value the session holds under its key, and
\* puts its value= argument there when the key is absent.
Widget(session, key, value) ==
    IF key \in DOMAIN session THEN session ELSE SetItem(session, key, value)

CombinedWeightKeys == {"weight_action_combined", "weight_outreach_combined"}

\* app.py: render_weight_sidebar(), as the session one script run leaves
\* behind. clicked is the value of the reset button in this run. The two
\* combined sliders are rendered only under "weighted_average"; when they are
\* not rendered, Streamlit drops their keys if the values were widget state
\* and keeps them if they were assigned through st.session_state (drop tells
\* which).
render_weight_sidebar(session, clicked, drop) ==
    LET defaults == get_default_weights
        b  == SetItem(session, "reset_weights", clicked)
        s1 == Widget(b, "weight_tourism_infra",
                     defaults.action_sports_weights.tourism_infra)
        s2 == Widget(s1, "weight_safety", defaults.action_sports_weights.safety)
        s3 == Widget(s2, "weight_natural_resources",
                     defaults.action_sports_weights.natural_resources)
        s4 == Widget(s3, "weight_religious_need",
                     defaults.outreach_weights.religious_need)
        s5 == Widget(s4, "weight_missionary_gap",
                     defaults.outreach_weights.missionary_gap)
        s6 == Widget(s5, "weight_legal_openness",
                     defaults.outreach_weights.legal_openness)
        s7 == Widget(s6, "combination_method", "multiply")
    IN  IF s7["combination_method"] = "weighted_average"
        THEN Widget(Widget(s7, "weight_action_combined", Q(1, 2)),
                    "weight_outreach_combined", Q(1, 2))
        ELSE IF drop THEN DelItems(s7, CombinedWeightKeys) ELSE s7

\* The positions the sliders are moved to (each runs from 0.0 to 1.0 in steps
\* of 0.05) and the options of the radio.
SliderValues == {F(0), F(1)}
ComponentWeightKeys ==
    {"weight_tourism_infra", "weight_safety", "weight_natural_resources",
     "weight_religious_need", "weight_missionary_gap", "weight_legal_openness"}
MethodOptions == {"multiply", "weighted_average"}


-----------------------------------------------------------------------------
(* State machine *)

NotYet == [status |-> "none"]
NoCall == [fn |-> "none"]

SourcesUnchanged == UNCHANGED <<jp_csv, od_csv, wef_csv, as_csv>>

\* The ranking pipeline: any base, persecution and tourism file, with the
\* activity file present.
Init ==
    /\ jp_csv \in JpFrames
    /\ od_csv \in OdFrames
    /\ wef_csv \in WefFrames
    /\ as_csv = AsFrame1
    /\ merged = NotYet
    /\ call = NoCall
    /\ ret = NotYet
    /\ top = NotYet
    /\ session_state = EmptySession

\* merge_all_data(): reads the four files and joins them, once per session
\* (the loaders and load_base_data are cached).
MergeAllData ==
    /\ merged = NotYet
    /\ merged' = merge_all_data(jp_csv, od_csv, wef_csv, as_csv)
    /\ UNCHANGED <<call, ret, top>>
    /\ SourcesUnchanged
    /\ UNCHANGED session_state

\* A public operation is called on the merged frame once the previous call's
\* result has been dropped.
CanCall == merged.status = "ok" /\ call = NoCall

\* generate_rankings(merged_df), as build_and_save_rankings and the refresh
\* script call it.
GenerateRankings ==
    /\ CanCall
    /\ call' = [fn |-> "generate_rankings"]
    /\ ret' = generate_rankings(merged.df)
    /\ UNCHANGED <<merged, top>>
    /\ SourcesUnchanged
    /\ UNCHANGED session_state

\* generate_rankings_with_weights(base_df, ...), as the app's main calls it on
\* every rerun with the sidebar's weights.
GenerateRankingsWithWeights ==
    /\ CanCall
    /\ \E w \in ComponentWeightChoices, c \in CombinationChoices :
          /\ call' = [fn |-> "generate_rankings_with_weights",
                      action_sports_weights |-> w[1], outreach_weights |-> w[2],
                      combined_weights |-> c[2], combination_method |-> c[1]]
          /\ ret' = generate_rankings_with_weights(merged.df, w[1], w[2], c[2], c[1])
    /\ UNCHANGED <<merged, top>>
    /\ SourcesUnchanged
    /\ UNCHANGED session_state

CalculateActionSportsScoreWeighted ==
    /\ CanCall
    /\ \E w \in ActionWeightChoices :
          /\ call' = [fn |-> "calculate_action_sports_score_weighted", weights |-> w]
          /\ ret' = Returned(calculate_action_sports_score_weighted(merged.df, w))
    /\ UNCHANGED <<merged, top>>
    /\ SourcesUnchanged
    /\ UNCHANGED session_state

CalculateOutreachScoreWeighted ==
    /\ CanCall
    /\ \E w \in OutreachWeightChoices :
          /\ call' = [fn |-> "calculate_outreach_score_weighted", weights |-> w]
          /\ ret' = Returned(calculate_outreach_score_weighted(merged.df, w))
    /\ UNCHANGED <<merged, top>>
    /\ SourcesUnchanged
    /\ UNCHANGED session_state

\* OutreachScorer(OutreachWeights(*w)).calculate(merged_df)
OutreachScorerCalculate ==
    /\ CanCall
    /\ \E w \in OutreachWeightChoices :
          /\ call' = [fn |-> "OutreachScorer.calculate", weights |-> w]
          /\ ret' = Returned(OutreachScorer_calculate(merged.df, AsOutreachWeights(w)))
    /\ UNCHANGED <<merged, top>>
    /\ SourcesUnchanged
    /\ UNCHANGED session_state

\* calculate_missionary_gap_score(merged_df)
CalculateMissionaryGapScore ==
    /\ CanCall
    /\ call' = [fn |-> "calculate_missionary_gap_score"]
    /\ ret' = Returned(calculate_missionary_gap_score(merged.df))
    /\ UNCHANGED <<merged, top>>
    /\ SourcesUnchanged
    /\ UNCHANGED session_state

\* ActionSportsScorer().calculate(merged_df)
ActionSportsScorerCalculate ==
    /\ CanCall
    /\ call' = [fn |-> "ActionSportsScorer.calculate"]
    /\ ret' = Returned(ActionSportsScorer_calculate(merged.df))
    /\ UNCHANGED <<merged, top>>
    /\ SourcesUnchanged
    /\ UNCHANGED session_state

\* The next rerun of the script: the previous result is dropped.
Rerun ==
    /\ call # NoCall
    /\ call' = NoCall
    /\ ret' = NotYet
    /\ top' = NotYet
    /\ UNCHANGED merged
    /\ SourcesUnchanged
    /\ UNCHANGED session_state

\* get_top_countries of scoring/combined.py on a ranked frame
GetTopCountries ==
    /\ call.fn \in {"generate_rankings", "generate_rankings_with_weights"}
    /\ ret.status = "ok"
    /\ top = NotYet
    /\ session_state = EmptySession
    /\ \E score_type \in ScoreTypeChoices, top_n \in TopNChoices :
          top' = [fn |-> "get_top_countries", score_type |-> score_type, top_n |-> top_n]
                 @@ get_top_countries(ret.df, score_type, top_n)
    /\ UNCHANGED <<merged, call, ret>>
    /\ SourcesUnchanged
    /\ UNCHANGED session_state

\* get_top_countries of app.py on a ranked frame
AppGetTopCountries ==
    /\ call.fn \in {"generate_rankings", "generate_rankings_with_weights"}
    /\ ret.status = "ok"
    /\ top = NotYet
    /\ session_state = EmptySession
    /\ \E score_type \in ScoreTypeChoices, top_n \in TopNChoices :
          top' = [fn |-> "app.get_top_countries", score_type |-> score_type,
                  top_n |-> top_n]
                 @@ app_get_top_countries(ret.df, score_type, top_n)
    /\ UNCHANGED <<merged, call, ret>>
    /\ SourcesUnchanged
    /\ UNCHANGED session_state

\* The app's main on its first run: the sidebar holds get_default_weights().
GenerateRankingsWithDefaultWeights ==
    /\ CanCall
    /\ call' = [fn |-> "generate_rankings_with_weights",
                action_sports_weights |-> DefaultActionWeights,
                outreach_weights |-> DefaultOutreachWeights,
                combined_weights |-> DefaultCombinedWeights,
                combination_method |-> "multiply"]
    /\ ret' = generate_rankings_with_weights(merged.df, DefaultActionWeights,
                  DefaultOutreachWeights, DefaultCombinedWeights, "multiply")
    /\ UNCHANGED <<merged, top>>
    /\ SourcesUnchanged
    /\ UNCHANGED session_state

\* A call of one of the three combinators on two score series.
CallCalculateCombinedScore ==
    /\ call = NoCall
    /\ \E n \in 1..MaxSeriesLen :
       \E a \in [1..n -> ScoreGrid], o \in [1..n -> ScoreGrid], m \in MethodChoices :
          /\ call' = [fn |-> "calculate_combined_score", action_score |-> a,
                      outreach_score |-> o, method |-> m]
          /\ ret' = calculate_combined_score(a, o, m)
    /\ UNCHANGED <<merged, top>>
    /\ SourcesUnchanged
    /\ UNCHANGED session_state

CallNormalizationCalculateCombinedScore ==
    /\ call = NoCall
    /\ \E n \in 1..MaxSeriesLen :
       \E a \in [1..n -> ScoreGrid], o \in [1..n -> ScoreGrid], m \in MethodChoices :
          /\ call' = [fn |-> "normalization.calculate_combined_score", action_score |-> a,
                      outreach_score |-> o, method |-> m]
          /\ ret' = normalization_calculate_combined_score(a, o, m)
    /\ UNCHANGED <<merged, top>>
    /\ SourcesUnchanged
    /\ UNCHANGED session_state

CallCalculateCombinedScoreWeighted ==
    /\ call = NoCall
    /\ \E n \in 1..MaxSeriesLen :
       \E a \in [1..n -> ScoreGrid], o \in [1..n -> ScoreGrid], c \in CombinationChoices :
          /\ call' = [fn |-> "calculate_combined_score_weighted", action_score |-> a,
                      outreach_score |-> o, method |-> c[1], weights |-> c[2]]
          /\ ret' = calculate_combined_score_weighted(a, o, c[2], c[1])
    /\ UNCHANGED <<merged, top>>
    /\ SourcesUnchanged
    /\ UNCHANGED session_state

\* A call of min_max_normalize on a series of up to MaxSeriesLen values.
CallMinMaxNormalize ==
    /\ call = NoCall
    /\ \E n \in 0..MaxSeriesLen :
       \E v \in [1..n -> ValueGrid], b \in BoundChoices, t \in TargetChoices,
          invert \in BOOLEAN :
          /\ call' = [fn |-> "min_max_normalize", values |-> v, min_val |-> b[1],
                      max_val |-> b[2], target_min |-> t[1], target_max |-> t[2],
                      invert |-> invert]
          /\ ret' = Returned(min_max_normalize(v, b[1], b[2], t[1], t[2], invert))
    /\ UNCHANGED <<merged, top>>
    /\ SourcesUnchanged
    /\ UNCHANGED session_state

\* A call of combine_weighted_scores on two series of up to MaxSeriesLen scores.
CallCombineWeightedScores ==
    /\ call = NoCall
    /\ \E n \in 1..MaxSeriesLen :
       \E sc \in [ScoreNames -> [1..n -> ScoreGrid \ {Q(667, 10)}]],
          w \in WeightMapChoices, normalize_output \in BOOLEAN :
          /\ call' = [fn |-> "combine_weighted_scores", scores |-> sc, weights |-> w,
                      normalize_output |-> normalize_output]
          /\ ret' = combine_weighted_scores(sc, w, normalize_output)
    /\ UNCHANGED <<merged, top>>
    /\ SourcesUnchanged
    /\ UNCHANGED session_state

\* python -c "build_and_save_rankings()" on the files as they are
BuildAndSaveRankings ==
    /\ call = NoCall
    /\ call' = [fn |-> "build_and_save_rankings"]
    /\ \E merged_df \in {merge_all_data(jp_csv, od_csv, wef_csv, as_csv)} :
          ret' = build_and_save_rankings(merged_df)
    /\ UNCHANGED <<merged, top>>
    /\ SourcesUnchanged
    /\ UNCHANGED session_state

\* python scripts/refresh_data.py
RefreshDataMain ==
    /\ call = NoCall
    /\ call' = [fn |-> "refresh_data.main"]
    /\ \E merged_df \in {merge_all_data(jp_csv, od_csv, wef_csv, as_csv)} :
          ret' = refresh_data_main(merged_df)
    /\ UNCHANGED <<merged, top>>
    /\ SourcesUnchanged
    /\ UNCHANGED session_state

\* The app's load_base_data on its own
LoadBaseData ==
    /\ call = NoCall
    /\ call' = [fn |-> "load_base_data"]
    /\ \E merged_df \in {merge_all_data(jp_csv, od_csv, wef_csv, as_csv)} :
          ret' = load_base_data(merged_df)
    /\ UNCHANGED <<merged, top>>
    /\ SourcesUnchanged
    /\ UNCHANGED session_state

\* streamlit run app.py, first run: the sidebar holds the default weights
AppMain ==
    /\ call = NoCall
    /\ call' = [fn |-> "app.main"]
    /\ \E merged_df \in {merge_all_data(jp_csv, od_csv, wef_csv, as_csv)} :
          ret' = app_main(merged_df, DefaultActionWeights, DefaultOutreachWeights,
                          DefaultCombinedWeights, "multiply")
    /\ UNCHANGED <<merged, top>>
    /\ SourcesUnchanged
    /\ session_state' = render_weight_sidebar(session_state, FALSE, TRUE)

Next ==
    \/ MergeAllData
    \/ GenerateRankings
    \/ GenerateRankingsWithWeights
    \/ CalculateActionSportsScoreWeighted
    \/ CalculateOutreachScoreWeighted
    \/ OutreachScorerCalculate
    \/ Rerun

Spec == Init /\ [][Next]_vars

\* The merge alone, over every combination of present and missing files.
InitMerge ==
    /\ jp_csv \in JpFrames
    /\ od_csv \in OdFrames
    /\ wef_csv \in WefFrames
    /\ as_csv \in AsFrames
    /\ merged = NotYet
    /\ call = NoCall
    /\ ret = NotYet
    /\ top = NotYet
    /\ session_state = EmptySession

NextMerge == MergeAllData

SpecMerge == InitMerge /\ [][NextMerge]_vars

\* The combinators alone: no file is read.
InitCombine ==
    /\ jp_csv = EmptyFrame
    /\ od_csv = EmptyFrame
    /\ wef_csv = EmptyFrame
    /\ as_csv = EmptyFrame
    /\ merged = NotYet
    /\ call = NoCall
    /\ ret = NotYet
    /\ top = NotYet
    /\ session_state = EmptySession

NextCombine ==
    \/ CallCalculateCombinedScore
    \/ CallNormalizationCalculateCombinedScore
    \/ CallCalculateCombinedScoreWeighted
    \/ Rerun

SpecCombine == InitCombine /\ [][NextCombine]_vars

\* The default rankings and the top-N query on them.
InitTop ==
    /\ jp_csv \in JpFrames
    /\ od_csv \in OdFrames \ {EmptyFrame}
    /\ wef_csv = WefFrame1
    /\ as_csv = AsFrame1
    /\ merged = NotYet
    /\ call = NoCall
    /\ ret = NotYet
    /\ top = NotYet
    /\ session_state = EmptySession

NextTop ==
    \/ MergeAllData
    \/ GenerateRankings
    \/ GenerateRankingsWithDefaultWeights
    \/ GetTopCountries
    \/ AppGetTopCountries
    \/ Rerun

SpecTop == InitTop /\ [][NextTop]_vars

\* An adapter called with a table of the caller's (here the table read from
\* the adapter's file): ret.df is what it returns, ret.caller_df what the
\* caller's table holds afterwards.
ProcessJoshuaProjectData ==
    /\ call = NoCall
    /\ call' = [fn |-> "process_joshua_project_data", df |-> jp_csv]
    /\ ret' = [status |-> "ok", df |-> process_joshua_project_data(jp_csv),
               caller_df |-> CallerTableAfterJoshua(jp_csv)]
    /\ UNCHANGED <<merged, top>>
    /\ SourcesUnchanged
    /\ UNCHANGED session_state

ProcessOpenDoorsData ==
    /\ call = NoCall
    /\ call' = [fn |-> "process_open_doors_data", df |-> od_csv]
    /\ ret' = [status |-> "ok", df |-> process_open_doors_data(od_csv),
               caller_df |-> CallerTableAfterOpenDoors(od_csv)]
    /\ UNCHANGED <<merged, top>>
    /\ SourcesUnchanged
    /\ UNCHANGED session_state

ProcessWefTtdiData ==
    /\ call = NoCall
    /\ call' = [fn |-> "process_wef_ttdi_data", df |-> wef_csv]
    /\ ret' = [status |-> "ok", df |-> process_wef_ttdi_data(wef_csv),
               caller_df |-> CallerTableAfterWef(wef_csv)]
    /\ UNCHANGED <<merged, top>>
    /\ SourcesUnchanged
    /\ UNCHANGED session_state

\* The entry points, over every combination of present and missing files.
NextPipeline ==
    \/ BuildAndSaveRankings
    \/ RefreshDataMain
    \/ LoadBaseData
    \/ AppMain
    \/ Rerun

SpecPipeline == InitMerge /\ [][NextPipeline]_vars

\* The source adapters called directly, then the ranking operations on the
\* merged table.
NextAdapters ==
    \/ ProcessJoshuaProjectData
    \/ ProcessOpenDoorsData
    \/ ProcessWefTtdiData
    \/ MergeAllData
    \/ GenerateRankings
    \/ GenerateRankingsWithDefaultWeights
    \/ Rerun

SpecAdapters == Init /\ [][NextAdapters]_vars

\* The normalization utilities called on their own.
NextNormalize ==
    \/ CallMinMaxNormalize
    \/ CallCombineWeightedScores
    \/ Rerun

SpecNormalize == InitCombine /\ [][NextNormalize]_vars

\* The component scores computed on their own on the merged table.
NextComponents ==
    \/ MergeAllData
    \/ CalculateMissionaryGapScore
    \/ ActionSportsScorerCalculate
    \/ CalculateActionSportsScoreWeighted
    \/ Rerun

SpecComponents == Init /\ [][NextComponents]_vars

\* The sidebar alone: the session of one browser tab, with no data files.
InitSidebar ==
    /\ jp_csv = EmptyFrame
    /\ od_csv = EmptyFrame
    /\ wef_csv = EmptyFrame
    /\ as_csv = EmptyFrame
    /\ merged = NotYet
    /\ call = NoCall
    /\ ret = NotYet
    /\ top = NotYet
    /\ session_state = EmptySession

\* The script's first run on a fresh session, and its rerun after the reset
\* button's callback (the button reads True in that run).
ScriptRun ==
    /\ (session_state = EmptySession /\ call = NoCall)
           \/ call.fn = "reset_weights_callback"
    /\ \E drop \in BOOLEAN :
          session_state' = render_weight_sidebar(session_state,
                               call.fn = "reset_weights_callback", drop)
    /\ call' = NoCall
    /\ UNCHANGED <<merged, ret, top>>
    /\ SourcesUnchanged

\* The user moves one of the rendered sliders; the script reruns.
MoveSlider ==
    /\ call = NoCall
    /\ \E key \in (ComponentWeightKeys \cup CombinedWeightKeys)
                      \cap DOMAIN session_state,
          value \in SliderValues, drop \in BOOLEAN :
          /\ key \in CombinedWeightKeys =>
                 session_state["combination_method"] = "weighted_average"
          /\ session_state' = render_weight_sidebar(
                                  SetItem(session_state, key, value), FALSE, drop)
    /\ UNCHANGED <<merged, call, ret, top>>
    /\ SourcesUnchanged

\* The user picks an option of the "Combination Method" radio; the script
\* reruns.
ChangeCombinationMethod ==
    /\ call = NoCall
    /\ "combination_method" \in DOMAIN session_state
    /\ \E method \in MethodOptions, drop \in BOOLEAN :
          session_state' = render_weight_sidebar(
              SetItem(session_state, "combination_method", method), FALSE, drop)
    /\ UNCHANGED <<merged, call, ret, top>>
    /\ SourcesUnchanged

\* The user clicks "Reset to Defaults": Streamlit sets the button's value and
\* runs reset_weights_callback before the rerun. call keeps the session the
\* callback started from.
ResetWeightsCallback ==
    /\ call = NoCall
    /\ "reset_weights" \in DOMAIN session_state
    /\ \E clicked \in {SetItem(session_state, "reset_weights", TRUE)} :
          /\ session_state' = reset_weights_callback(clicked)
          /\ call' = [fn |-> "reset_weights_callback", before |-> clicked]
    /\ UNCHANGED <<merged, ret, top>>
    /\ SourcesUnchanged

NextSidebar ==
    \/ ScriptRun
    \/ MoveSlider
    \/ ChangeCombinationMethod
    \/ ResetWeightsCallback

SpecSidebar == InitSidebar /\ [][NextSidebar]_vars

-----------------------------------------------------------------------------
(* Properties of the ranking operations (specification Spec) *)

RankingFns == {"generate_rankings", "generate_rankings_with_weights"}

RankingReturned == call.fn \in RankingFns /\ ret.status = "ok"

\* The rows of a frame restricted to a set of columns
Project(df, cols) == [i \in 1..Len(df.rows) |-> [c \in cols |-> df.rows[i][c]]]

Count(seq, x) == Cardinality({i \in 1..Len(seq) : seq[i] = x})

\* C1: in every ranking table that generate_rankings or
\* generate_rankings_with_weights returns, each record's action-sports,
\* outreach and combined score is a number between 0 and 100 inclusive.
C1_ScoresInRange ==
    RankingReturned =>
        \A i \in 1..Len(ret.df.rows) : \A c \in ScoreColumns :
            InRange0to100(ret.df.rows[i][c])

\* A table computed with weights that do not sum to 1; one record has more
\* than 10 percent evangelicals (its low-evangelical term is clipped at 0)
\* and scores below 1, another scores above 50.
C1_Witness ==
    /\ RankingReturned
    /\ call.fn = "generate_rankings_with_weights"
    /\ call.outreach_weights = <<Q(1, 4), F(1), F(0)>>
    /\ call.action_sports_weights = <<Q(1, 4), F(1), F(0)>>
    /\ Len(ret.df.rows) >= 2
    /\ \E i, j \in 1..Len(ret.df.rows) :
          /\ RGt(F(10), ret.df.rows[i]["pct_evangelical"]) = FALSE
          /\ RLt(ret.df.rows[i]["outreach_score"], F(1))
          /\ RGt(ret.df.rows[j]["outreach_score"], F(50))

\* C2: each of the three weight-taking score functions returns the same
\* series when all its weights are multiplied by one positive factor.
C2_ScaleInvariant ==
    /\ call.fn = "calculate_action_sports_score_weighted" =>
          \A c \in ScaleFactors :
              calculate_action_sports_score_weighted(merged.df, Scaled(c, call.weights))
                  = ret.values
    /\ call.fn = "calculate_outreach_score_weighted" =>
          \A c \in ScaleFactors :
              calculate_outreach_score_weighted(merged.df, Scaled(c, call.weights))
                  = ret.values
    /\ call.fn = "OutreachScorer.calculate" =>
          \A c \in ScaleFactors :
              OutreachScorer_calculate(merged.df, AsOutreachWeights(Scaled(c, call.weights)))
                  = ret.values

\* C3 as stated: in each dimension a record's rank is 1 + the number of
\* records whose returned (rounded) score is strictly greater.
C3_RankByReturnedScore ==
    RankingReturned =>
        \A d \in Dimensions : \A i \in 1..Len(ret.df.rows) :
            ret.df.rows[i][RankColumnOf[d]] =
                1 + Cardinality({j \in 1..Len(ret.df.rows) :
                        RGt(ret.df.rows[j][ScoreColumnOf[d]],
                            ret.df.rows[i][ScoreColumnOf[d]])})

\* The scores of one dimension as they were before the final rounding
Unrounded(d) == Column(ret.unrounded, ScoreColumnOf[d])

\* The positions holding the best unrounded score of a dimension
Best(d) ==
    {i \in 1..Len(ret.df.rows) :
        \A j \in 1..Len(ret.df.rows) : ~RGt(Unrounded(d)[j], Unrounded(d)[i])}

\* C3 (amended): in each dimension a record's rank is 1 + the number of
\* records whose score before the final one-decimal rounding is strictly
\* greater; records with equal unrounded scores share a rank, the k records
\* with the best unrounded score have rank 1 and the next-best distinct
\* unrounded score has rank k + 1.
C3_RankByUnroundedScore ==
    RankingReturned =>
        \A d \in Dimensions :
            /\ \A i \in 1..Len(ret.df.rows) :
                  /\ ret.df.rows[i][ScoreColumnOf[d]] = Round1(Unrounded(d)[i])
                  /\ ret.df.rows[i][RankColumnOf[d]] =
                        1 + Cardinality({j \in 1..Len(ret.df.rows) :
                                RGt(Unrounded(d)[j], Unrounded(d)[i])})
                  /\ i \in Best(d) => ret.df.rows[i][RankColumnOf[d]] = 1
                  /\ (/\ i \notin Best(d)
                      /\ \A j \in 1..Len(ret.df.rows) :
                            j \in Best(d) \/ ~RGt(Unrounded(d)[j], Unrounded(d)[i]))
                     => ret.df.rows[i][RankColumnOf[d]] = Cardinality(Best(d)) + 1
            /\ \A i, j \in 1..Len(ret.df.rows) :
                  Unrounded(d)[i] = Unrounded(d)[j]
                  => ret.df.rows[i][RankColumnOf[d]] = ret.df.rows[j][RankColumnOf[d]]

\* Two records tie for the best score of a dimension and a third follows
\* with rank 3.
C3_Witness ==
    /\ RankingReturned
    /\ \E d \in Dimensions :
          /\ Cardinality(Best(d)) = 2
          /\ \A i \in Best(d) : ret.df.rows[i][RankColumnOf[d]] = 1
          /\ \E i \in 1..Len(ret.df.rows) : ret.df.rows[i][RankColumnOf[d]] = 3

\* C4: generate_rankings returns, for any merged population and whatever
\* inputs are missing, a table holding every record with an integer rank in
\* each of the three dimensions.
C4_RankingTotal ==
    call.fn = "generate_rankings" =>
        /\ ret.status = "ok"
        /\ Len(ret.df.rows) = Len(merged.df.rows)
        /\ \A i \in 1..Len(ret.df.rows) : \A d \in Dimensions :
              ret.df.rows[i][RankColumnOf[d]] \in 1..Len(ret.df.rows)

\* C5: a returned ranking table is in ascending order of combined_rank and
\* holds exactly the records it was given, none dropped or duplicated.
C5_SortedSameRecords ==
    RankingReturned =>
        /\ \A i \in 1..(Len(ret.df.rows) - 1) :
              ret.df.rows[i]["combined_rank"] <= ret.df.rows[i + 1]["combined_rank"]
        /\ Len(ret.df.rows) = Len(merged.df.rows)
        /\ \A r \in Range(merged.df.rows) :
              Count(Project(ret.df, merged.df.cols), r) = Count(merged.df.rows, r)

\* A table whose order differs from the order of the records given.
C5_Witness ==
    /\ RankingReturned
    /\ Len(ret.df.rows) >= 3
    /\ Project(ret.df, merged.df.cols) # merged.df.rows
    /\ \E i \in 1..(Len(ret.df.rows) - 1) :
          ret.df.rows[i]["combined_rank"] < ret.df.rows[i + 1]["combined_rank"]

-----------------------------------------------------------------------------
(* Properties of the combinators (specification SpecCombine) *)

CombineFns ==
    {"calculate_combined_score", "normalization.calculate_combined_score",
     "calculate_combined_score_weighted"}

\* The method tags each combinator documents
SupportedMethods ==
    ("calculate_combined_score" :> {"multiply", "average", "geometric_mean"})
    @@ ("normalization.calculate_combined_score" :> {"multiply", "average", "geometric_mean"})
    @@ ("calculate_combined_score_weighted" :> {"multiply", "weighted_average"})

\* C6: on scores in [0,100], every combinator's multiply is (a*b)/100, so a
\* 0 on either side gives 0, and average, where a combinator has it, is
\* (a+b)/2; both results stay in [0,100].  multiply(0,100) = 0,
\* multiply(100,100) = 100 and average(0,100) = 50 are among the cases.
C6_MultiplyAverage ==
    call.fn \in CombineFns =>
        /\ call.method = "multiply" =>
              /\ ret.status = "ok"
              /\ Len(ret.values) = Len(call.action_score)
              /\ \A i \in 1..Len(call.action_score) :
                    /\ ret.values[i] =
                          RDiv(RMul(call.action_score[i], call.outreach_score[i]), F(100))
                    /\ InRange0to100(ret.values[i])
                    /\ (call.action_score[i] = F(0) \/ call.outreach_score[i] = F(0))
                       => ret.values[i] = F(0)
                    /\ (call.action_score[i] = F(100) /\ call.outreach_score[i] = F(100))
                       => ret.values[i] = F(100)
        /\ (call.method = "average" /\ "average" \in SupportedMethods[call.fn]) =>
              /\ ret.status = "ok"
              /\ Len(ret.values) = Len(call.action_score)
              /\ \A i \in 1..Len(call.action_score) :
                    /\ ret.values[i] =
                          RDiv(RAdd(call.action_score[i], call.outreach_score[i]), F(2))
                    /\ InRange0to100(ret.values[i])
                    /\ (call.action_score[i] = F(0) /\ call.outreach_score[i] = F(100))
                       => ret.values[i] = F(50)

\* The app's combinator multiplies the pairs (0, 100) and (50, 100) to 0 and 50.
C6_Witness ==
    /\ call.fn = "calculate_combined_score_weighted"
    /\ call.method = "multiply"
    /\ call.action_score = <<F(0), F(50)>>
    /\ call.outreach_score = <<F(100), F(100)>>
    /\ ret = Returned(<<F(0), F(50)>>)

\* C7: a combinator given a method tag outside its supported set raises an
\* invalid-argument error.
C7_UnknownMethodRaises ==
    (call.fn \in CombineFns /\ call.method \notin SupportedMethods[call.fn])
        => ret.status = "ValueError"

-----------------------------------------------------------------------------
(* Properties of the top-N query (specification SpecTop) *)

TopFns == {"get_top_countries", "app.get_top_countries"}

\* C8: either get_top_countries, asked for a score_type the table has no
\* rank column for, raises an invalid-argument error.
C8_UnknownScoreTypeRaises ==
    (top.status # "none" /\ top.fn \in TopFns
        /\ RankColumnOf[top.score_type] \notin ret.df.cols)
        => top.status = "ValueError"

Min(a, b) == IF a < b THEN a ELSE b

\* C19: either get_top_countries, asked for a dimension the table is ranked
\* in, returns min(top_n, N) of the table's records in ascending order of that
\* rank, and no record it leaves out has a smaller rank than one it returns
\* (so with top_n >= N it returns the whole table sorted by that rank).
C19_TopNSmallestRanks ==
    (top.status = "ok" /\ top.fn \in TopFns /\ top.score_type \in Dimensions) =>
        LET col == RankColumnOf[top.score_type]
            got == top.df.rows
            all == ret.df.rows
        IN  /\ Len(got) = Min(top.top_n, Len(all))
            /\ \A i \in 1..(Len(got) - 1) : got[i][col] <= got[i + 1][col]
            /\ \A i \in 1..Len(all) : Count(got, all[i]) <= Count(all, all[i])
            /\ \A i \in 1..Len(got) : Count(all, got[i]) >= 1
            /\ \A i \in 1..Len(all) :
                  Count(got, all[i]) < Count(all, all[i]) =>
                      \A j \in 1..Len(got) : got[j][col] <= all[i][col]

\* Two of three records asked for by outreach rank, which are not the two
\* the table (sorted by combined rank) starts with.
C19_Witness ==
    /\ top.status = "ok" /\ top.fn = "get_top_countries"
    /\ top.score_type = "outreach" /\ top.top_n = 2
    /\ Len(ret.df.rows) = 3
    /\ Len(top.df.rows) = 2
    /\ top.df.rows # SubSeq(ret.df.rows, 1, 2)

-----------------------------------------------------------------------------
(* Properties of the merge (specification SpecMerge) *)

\* The ISO3 keys of a processed frame
Keys(df) == IF IsEmpty(df) THEN {} ELSE Range(Column(df, "iso_alpha_3"))

Base == process_joshua_project_data(jp_csv)

\* C9: when merge_all_data returns, every base record is in the merged frame
\* with its base columns unchanged, and a record without a match in a
\* secondary table carries that table's defaults: persecution 0 with no
\* rank, no tourism rank, every activity flag false.
C9_BaseRecordsKept ==
    merged.status = "ok" =>
        /\ \A r \in Range(Base.rows) :
              Count(Project(merged.df, Base.cols), r) >= Count(Base.rows, r)
        /\ \A j \in 1..Len(merged.df.rows) :
              LET row == merged.df.rows[j]
              IN  /\ row["iso_alpha_3"] \notin Keys(process_open_doors_data(od_csv)) =>
                        /\ row["persecution_score"] = F(0)
                        /\ row["persecution_rank"] = NaN
                        /\ row["legal_openness"] = F(100)
                  /\ (~IsEmpty(wef_csv)
                      /\ row["iso_alpha_3"] \notin Keys(process_wef_ttdi_data(wef_csv))) =>
                        row["ttdi_rank"] = NaN
                  /\ (~IsEmpty(as_csv) /\ row["iso_alpha_3"] \notin Keys(as_csv)) =>
                        \A c \in SportColumns(as_csv) : row[c] = FALSE

\* A merge of all four tables in which one base record of several has no
\* match in any secondary table.
C9_Witness ==
    /\ merged.status = "ok"
    /\ Len(Base.rows) >= 2
    /\ ~IsEmpty(wef_csv)
    /\ ~IsEmpty(as_csv)
    /\ Len(merged.df.rows) = Len(Base.rows)
    /\ \E j \in 1..Len(merged.df.rows) :
          /\ merged.df.rows[j]["iso_alpha_3"] # None
          /\ merged.df.rows[j]["iso_alpha_3"] \notin
                Keys(process_open_doors_data(od_csv))
                \cup Keys(process_wef_ttdi_data(wef_csv)) \cup Keys(as_csv)
    /\ \E j \in 1..Len(merged.df.rows) :
          merged.df.rows[j]["iso_alpha_3"] \in Keys(process_open_doors_data(od_csv))

\* C10: a base record without an ISO3 code is in the merged frame and is
\* joined to no secondary row: persecution 0 with no rank, no tourism rank,
\* every activity flag false.
C10_NullKeyNeverJoined ==
    merged.status = "ok" =>
        /\ \A r \in Range(Base.rows) :
              r["iso_alpha_3"] = None => Count(Project(merged.df, Base.cols), r) = 1
        /\ \A j \in 1..Len(merged.df.rows) :
              LET row == merged.df.rows[j]
              IN  row["iso_alpha_3"] = None =>
                     /\ row["persecution_score"] = F(0)
                     /\ row["persecution_rank"] = NaN
                     /\ "ttdi_rank" \in merged.df.cols => row["ttdi_rank"] = NaN
                     /\ \A c \in merged.df.cols \ (Base.cols \cup
                            {"persecution_score", "persecution_rank", "legal_openness",
                             "ttdi_score", "ttdi_rank"}) : row[c] = FALSE

\* C11: the merged frame has exactly one record per base record and no two
\* of its records share a non-null iso_alpha_3, whatever rows the secondary
\* sources hold.
C11_KeyedByIso ==
    merged.status = "ok" =>
        /\ Len(merged.df.rows) = Len(Base.rows)
        /\ \A i, j \in 1..Len(merged.df.rows) :
              (i # j /\ merged.df.rows[i]["iso_alpha_3"] # None)
              => merged.df.rows[i]["iso_alpha_3"] # merged.df.rows[j]["iso_alpha_3"]

\* The ISO3 codes a processed frame holds: what its rows resolve to
Codes(df) == Keys(df) \ {None}

\* C12: in the merged frame every record has a non-null persecution_score
\* and legal_openness = 100 - persecution_score; a record for which the
\* persecution source has no row (no row resolving to its ISO3 code, or no
\* code at all) has persecution_score 0 and legal_openness 100.
C12_PersecutionFilled ==
    merged.status = "ok" =>
        \A j \in 1..Len(merged.df.rows) :
            LET row == merged.df.rows[j]
            IN  /\ ~IsNaN(row["persecution_score"])
                /\ row["legal_openness"] = RSub(F(100), row["persecution_score"])
                /\ row["iso_alpha_3"] \notin Codes(process_open_doors_data(od_csv)) =>
                      /\ row["persecution_score"] = F(0)
                      /\ row["legal_openness"] = F(100)

\* The TTDI values of the tourism rows that resolve to an ISO3 code
TtdiOf(code) ==
    LET wef == process_wef_ttdi_data(wef_csv)
    IN  {wef.rows[k]["ttdi_score"] : k \in {n \in 1..Len(wef.rows) :
                                              wef.rows[n]["iso_alpha_3"] = code}}

\* The merged records that have a TTDI row of their own
HasTtdi(j) ==
    /\ merged.df.rows[j]["iso_alpha_3"] # None
    /\ TtdiOf(merged.df.rows[j]["iso_alpha_3"]) # {}

\* C13: when the tourism source was joined, no merged record has a null
\* ttdi_score; a record with a TTDI row keeps that value, and every record
\* without one carries the median of the values of the records that have one.
C13_TtdiMedianFill ==
    (merged.status = "ok" /\ "ttdi_score" \in merged.df.cols) =>
        LET present == SelectSeq([j \in 1..Len(merged.df.rows) |->
                                     IF HasTtdi(j) THEN merged.df.rows[j]["ttdi_score"]
                                     ELSE NaN],
                                 LAMBDA v : ~IsNaN(v))
        IN  \A j \in 1..Len(merged.df.rows) :
                /\ ~IsNaN(merged.df.rows[j]["ttdi_score"])
                /\ HasTtdi(j) => merged.df.rows[j]["ttdi_score"]
                                    \in TtdiOf(merged.df.rows[j]["iso_alpha_3"])
                /\ ~HasTtdi(j) => merged.df.rows[j]["ttdi_score"] = Median(present)

\* The activity rows listed under an ISO3 code
ActivityRowsOf(code) == {k \in 1..Len(as_csv.rows) : as_csv.rows[k]["iso_alpha_3"] = code}

\* C14: with the activity table present, every base record is in the merged
\* frame, every activity flag is a boolean, a record whose country the
\* table does not list has every flag false, and a listed country carries
\* the flags of its row.
C14_AbsentCountryAllFalse ==
    (merged.status = "ok" /\ ~IsEmpty(as_csv)) =>
        /\ \A r \in Range(Base.rows) : Count(Project(merged.df, Base.cols), r) >= 1
        /\ \A j \in 1..Len(merged.df.rows) : \A c \in SportColumns(as_csv) :
              LET row == merged.df.rows[j]
                  listed == IF row["iso_alpha_3"] = None THEN {}
                            ELSE ActivityRowsOf(row["iso_alpha_3"])
              IN  /\ row[c] \in BOOLEAN
                  /\ listed = {} => row[c] = FALSE
                  /\ listed # {} =>
                        \E k \in listed : row[c] = (as_csv.rows[k][c] = "True")

\* C15: with a base table and any secondary file missing, merge_all_data
\* returns and generate_rankings returns one scored and ranked record per
\* base record.
C15_DegradedPipelineCompletes ==
    (/\ merged.status # "none"
     /\ ~IsEmpty(jp_csv)
     /\ IsEmpty(od_csv) \/ IsEmpty(wef_csv) \/ IsEmpty(as_csv)) =>
        /\ merged.status = "ok"
        /\ call.fn = "generate_rankings" =>
              /\ ret.status = "ok"
              /\ Len(ret.df.rows) = Len(jp_csv.rows)
              /\ \A i \in 1..Len(ret.df.rows) : \A d \in Dimensions :
                    /\ ~IsNaN(ret.df.rows[i][ScoreColumnOf[d]])
                    /\ ret.df.rows[i][RankColumnOf[d]] \in 1..Len(ret.df.rows)

\* What pycountry alone answers for a name: exact name, else the first fuzzy
\* hit, else common name.
PycountryResolve(name) ==
    IF Lookup(PycountryByName, name) # None THEN Lookup(PycountryByName, name)
    ELSE IF Lookup(PycountryFuzzy, name) # None THEN Lookup(PycountryFuzzy, name)
    ELSE Lookup(PycountryByCommonName, name)

OverrideCode(name) ==
    IF COUNTRY_NAME_MAPPINGS[name] = None THEN None
    ELSE PycountryResolve(COUNTRY_NAME_MAPPINGS[name])

\* C17: a base record whose name is in COUNTRY_NAME_MAPPINGS carries the code
\* of the override's target (no code when the override is None), whatever a
\* fuzzy search on the name itself would have found.
C17_OverrideBeforeFuzzy ==
    merged.status = "ok" =>
        \A i \in 1..Len(merged.df.rows) :
            LET r == merged.df.rows[i]
            IN  r["Country"] \in DOMAIN COUNTRY_NAME_MAPPINGS =>
                    r["iso_alpha_3"] = OverrideCode(r["Country"])

\* "Korea South" resolved to KOR although a fuzzy search on it finds PRK, and
\* "Svalbard" left without a code although a fuzzy search on it finds SJM.
C17_Witness ==
    /\ merged.status = "ok"
    /\ \E i, j \in 1..Len(merged.df.rows) :
          /\ merged.df.rows[i]["Country"] = "Korea South"
          /\ merged.df.rows[i]["iso_alpha_3"] = "KOR"
          /\ PycountryFuzzy["Korea South"] = "PRK"
          /\ merged.df.rows[j]["Country"] = "Svalbard"
          /\ merged.df.rows[j]["iso_alpha_3"] = None
          /\ PycountryFuzzy["Svalbard"] = "SJM"


\* No base record has a row in the persecution file or in the tourism file.
NoSecondaryRows ==
    /\ ~IsEmpty(jp_csv)
    /\ Keys(Base) \cap Keys(process_open_doors_data(od_csv)) = {}
    /\ Keys(Base) \cap Keys(process_wef_ttdi_data(wef_csv)) = {}

\* C18: when no base record has a persecution row or a tourism row, the merge
\* and generate_rankings both complete, every action_sports_score is 50.0, and
\* the record with 10% Christians and 60% unreached ("Korea South") has a
\* strictly greater outreach_score than the records with 90% / 0% ("Albania")
\* and 50% / 30% ("Russia").
C18_NoSecondaryData ==
    NoSecondaryRows =>
        /\ merged.status \in {"none", "ok"}
        /\ call.fn = "generate_rankings" =>
              /\ ret.status = "ok"
              /\ \A i \in 1..Len(ret.df.rows) :
                    ret.df.rows[i]["action_sports_score"] = F(50)
              /\ \A b, a \in 1..Len(ret.df.rows) :
                    (/\ ret.df.rows[b]["Country"] = "Korea South"
                     /\ ret.df.rows[a]["Country"] \in {"Albania", "Russia"})
                    => RGt(ret.df.rows[b]["outreach_score"],
                           ret.df.rows[a]["outreach_score"])

-----------------------------------------------------------------------------
(* Properties of the entry points (specification SpecPipeline) *)

EntryPoints == {"build_and_save_rankings", "refresh_data.main", "load_base_data", "app.main"}

\* C16: with no base record, every entry point ends in a failure its caller
\* sees (an exception, exit status 1, or the app's error message), holds no
\* table and writes no rankings file.
C16_EmptyPopulationFails ==
    (call.fn \in EntryPoints /\ IsEmpty(jp_csv)) =>
        /\ ret.status \in {"KeyError", "ValueError", "exit 1", "st.error"}
        /\ IsEmpty(ret.df)
        /\ ~ret.saved

\* build_and_save_rankings called with every file missing.
C16_Witness ==
    /\ call.fn = "build_and_save_rankings"
    /\ IsEmpty(jp_csv) /\ IsEmpty(od_csv) /\ IsEmpty(wef_csv) /\ IsEmpty(as_csv)
    /\ ret.status = "KeyError"
    /\ ~ret.saved

-----------------------------------------------------------------------------
(* Properties of the adapters (specification SpecAdapters) *)

AdapterFns ==
    {"process_joshua_project_data", "process_open_doors_data", "process_wef_ttdi_data"}

\* C20: after an adapter was called with a table of the caller's, that table
\* has the columns and values it had before the call.
C20_InputTableUnchanged ==
    call.fn \in AdapterFns => ret.caller_df = call.df

-----------------------------------------------------------------------------
(* The cached snapshot against the recomputed ranking (specification Spec) *)

IsDefaultWeightsCall ==
    /\ call.fn = "generate_rankings_with_weights"
    /\ call.action_sports_weights = DefaultActionWeights
    /\ call.outreach_weights = DefaultOutreachWeights
    /\ call.combined_weights = DefaultCombinedWeights
    /\ call.combination_method = "multiply"

\* Each record's name with its three scores and three ranks
ScoresAndRanks(df) == Range(Project(df, {"Country"} \cup ScoreColumns \cup RankColumns))

\* C21: the ranking recomputed from the merged table with the default weights
\* gives every record the scores and ranks that the snapshot persisted by
\* build_and_save_rankings and read back by load_processed_data gives it.
C21_SnapshotEqualsRecomputed ==
    (IsDefaultWeightsCall /\ ret.status = "ok") =>
        LET snapshot == load_processed_data(RankingsFile(merged))
        IN  /\ snapshot.found
            /\ ScoresAndRanks(snapshot.df) = ScoresAndRanks(ret.df)

-----------------------------------------------------------------------------
(* Properties of the normalization utilities (specification SpecNormalize) *)

Present(values) == {values[i] : i \in 1..Len(values)} \ {NaN}

\* The bounds a call scales by: the ones given, else the least and the
\* greatest value present (NaN when none is).
LowerBound ==
    IF call.min_val # NoneR THEN call.min_val
    ELSE IF Present(call.values) = {} THEN NaN
    ELSE CHOOSE x \in Present(call.values) : \A y \in Present(call.values) : RLe(x, y)

UpperBound ==
    IF call.max_val # NoneR THEN call.max_val
    ELSE IF Present(call.values) = {} THEN NaN
    ELSE CHOOSE x \in Present(call.values) : \A y \in Present(call.values) : RLe(y, x)

DegenerateBounds == ~IsNaN(LowerBound) /\ LowerBound = UpperBound

\* C22: min_max_normalize called with min_val == max_val, given or observed,
\* returns (no exception) a series as long as its input whose every value is
\* target_max.
C22_DegenerateRangeGivesTargetMax ==
    (call.fn = "min_max_normalize" /\ DegenerateBounds) =>
        /\ ret.status = "ok"
        /\ Len(ret.values) = Len(call.values)
        /\ \A i \in 1..Len(ret.values) : ret.values[i] = call.target_max

\* Both ways of getting equal bounds: given equal over differing values, and
\* observed over two equal values.
C22_Witness ==
    /\ call.fn = "min_max_normalize" /\ DegenerateBounds
    /\ Len(call.values) = 2
    /\ \/ call.min_val # NoneR /\ call.values[1] # call.values[2]
       \/ call.min_val = NoneR /\ call.max_val = NoneR
    /\ ret.values = <<call.target_max, call.target_max>>

\* The same call with invert = False
NotInverted ==
    min_max_normalize(call.values, call.min_val, call.max_val, call.target_min,
                      call.target_max, FALSE)

InTargetRange(x) == RLe(call.target_min, x) /\ RLe(x, call.target_max)

\* C23 as stated: with invert = True every output is target_max minus the
\* output of the same call with invert = False, and lies in
\* [target_min, target_max].
C23_InvertIsTargetMaxMinus ==
    (call.fn = "min_max_normalize" /\ call.invert) =>
        \A i \in 1..Len(ret.values) :
            /\ ret.values[i] = RSub(call.target_max, NotInverted[i])
            /\ InTargetRange(ret.values[i])

\* C23 as the code has it: with invert = True and min_val # max_val, the output
\* for a present value is target_min + target_max minus the output of the same
\* call with invert = False, and lies in [target_min, target_max]; the output
\* for a missing value is missing.
C23_InvertMirrorsInRange ==
    (call.fn = "min_max_normalize" /\ call.invert /\ ~DegenerateBounds) =>
        \A i \in 1..Len(ret.values) :
            IF IsNaN(call.values[i]) \/ IsNaN(LowerBound) THEN IsNaN(ret.values[i])
            ELSE /\ ret.values[i] = RSub(RAdd(call.target_min, call.target_max),
                                         NotInverted[i])
                 /\ InTargetRange(ret.values[i])

\* An inverted call onto [10, 20] with bounds (1, 6): 3.5 maps to 15 either
\* way round, 3 maps to 16 (14 not inverted), and 8 is clipped to 10.
C23_Witness ==
    /\ call.fn = "min_max_normalize" /\ call.invert /\ ~DegenerateBounds
    /\ call.target_min = F(10) /\ call.target_max = F(20)
    /\ call.min_val = F(1) /\ call.max_val = F(6)
    /\ call.values = <<F(3), F(8)>>
    /\ ret.values = <<F(16), F(10)>>
    /\ NotInverted = <<F(14), F(20)>>

\* The weights of a call divided by their sum
Renormalized(weights) ==
    [k \in DOMAIN weights |-> RDiv(weights[k], SumOver(DOMAIN weights, weights))]

\* The sum over the named series of weight times score, 0 for a name without
\* a weight
WeightedSum(scores, w, i) ==
    SumOver(DOMAIN scores,
            [k \in DOMAIN scores |->
                IF k \in DOMAIN w THEN RMul(w[k], scores[k][i]) ELSE F(0)])

\* C24: combine_weighted_scores, for weights of a non-zero sum, returns the
\* weighted sum of its series under the weights divided by their sum (passed
\* through min_max_normalize when normalize_output is set), a name without a
\* weight counting 0.
C24_WeightsRenormalized ==
    (call.fn = "combine_weighted_scores"
        /\ SumOver(DOMAIN call.weights, call.weights) # F(0)) =>
        LET n == Len(call.scores["outreach"])
            sum == [i \in 1..n |->
                       WeightedSum(call.scores, Renormalized(call.weights), i)]
        IN  /\ ret.status = "ok"
            /\ ret.values = IF call.normalize_output
                             THEN min_max_normalize(sum, NoneR, NoneR, F(0), F(100), FALSE)
                             ELSE sum

-----------------------------------------------------------------------------
(* Properties of the component scores (specification SpecComponents) *)

RMax(a, b) == IF RLt(a, b) THEN b ELSE a

\* unreached_groups / max(population, 1) * 1,000,000 of record i of the merged
\* table, a null count taken as 0 and a null population as 1
UpmOf(i) ==
    LET r == merged.df.rows[i]
    IN  RMul(RDiv(FillNa(r["unreached_groups"], F(0)),
                  RMax(FillNa(r["population"], F(1)), F(1))),
             F(1000000))

MaxUpm == SeriesMax([i \in 1..Len(merged.df.rows) |-> UpmOf(i)])

\* C25: calculate_missionary_gap_score gives every record, also one with a
\* population of 0 or none, the number 0.5 * N + 0.5 * clip(100 - 10 *
\* pct_evangelical, 0, 100), which lies in [0, 100]; N is 100 * upm / the
\* greatest upm, or 0 when that is 0.
C25_MissionaryGapDefined ==
    call.fn = "calculate_missionary_gap_score" =>
        \A i \in 1..Len(merged.df.rows) :
            LET N == IF MaxUpm = F(0) THEN F(0)
                     ELSE RMul(F(100), RDiv(UpmOf(i), MaxUpm))
                low == Clip(RSub(F(100),
                                 RMul(F(10), FillNa(merged.df.rows[i]["pct_evangelical"],
                                                    F(0)))),
                            F(0), F(100))
            IN  /\ InRange0to100(ret.values[i])
                /\ ret.values[i] = RAdd(RMul(Q(1, 2), N), RMul(Q(1, 2), low))

\* A call whose result is the tourism-infrastructure component alone
TourismOnlyCall ==
    \/ call.fn = "ActionSportsScorer.calculate"
    \/ /\ call.fn = "calculate_action_sports_score_weighted"
       /\ call.weights = <<F(1), F(0), F(0)>>

-----------------------------------------------------------------------------
(* Rounding and ranks in the two ranking paths (specification Spec) *)

\* The action-sports and outreach scores of the merged table as the called
\* path computes them, before any rounding
PathAction ==
    IF call.fn = "generate_rankings" THEN calculate_action_sports_score(merged.df)
    ELSE calculate_action_sports_score_weighted(merged.df, call.action_sports_weights)

PathOutreach ==
    IF call.fn = "generate_rankings" THEN calculate_outreach_score(merged.df)
    ELSE calculate_outreach_score_weighted(merged.df, call.outreach_weights)

MultiplyPath ==
    \/ call.fn = "generate_rankings"
    \/ call.fn = "generate_rankings_with_weights" /\ call.combination_method = "multiply"

\* Each merged record with the combined score the returned table gives it
ReturnedCombined ==
    {<<[c \in merged.df.cols |-> ret.df.rows[i][c]], ret.df.rows[i]["combined_score"]>> :
        i \in 1..Len(ret.df.rows)}

\* C27 as stated: generate_rankings computes combined_score from the
\* action-sports and outreach scores already rounded to 1 decimal.
C27_DefaultPathRoundsFirst ==
    (call.fn = "generate_rankings" /\ ret.status = "ok") =>
        ReturnedCombined =
            {<<merged.df.rows[i],
               Round1(Clip(Multiply(Round1(PathAction[i]), Round1(PathOutreach[i])),
                           F(0), F(100)))>> : i \in 1..Len(merged.df.rows)}

\* C27 as the code has it: in generate_rankings and in
\* generate_rankings_with_weights alike, combined_score under the multiply
\* method is computed from the unrounded scores and rounded afterwards.
C27_BothPathsRoundLast ==
    (MultiplyPath /\ ret.status = "ok") =>
        ReturnedCombined =
            {<<merged.df.rows[i],
               Round1(Clip(Multiply(PathAction[i], PathOutreach[i]), F(0), F(100)))>> :
                i \in 1..Len(merged.df.rows)}

\* A default ranking holding a record whose combined score would have been
\* another had the two scores been rounded first.
C27_Witness ==
    /\ call.fn = "generate_rankings" /\ ret.status = "ok"
    /\ \E i \in 1..Len(merged.df.rows) :
          Round1(Clip(Multiply(PathAction[i], PathOutreach[i]), F(0), F(100)))
            # Round1(Clip(Multiply(Round1(PathAction[i]), Round1(PathOutreach[i])),
                          F(0), F(100)))

\* C28: in a returned ranking, for each dimension, a record whose returned
\* score is strictly greater than another's has a strictly smaller rank, some
\* record has rank 1, and every rank is one of 1..N.
C28_RanksAgreeWithScores ==
    RankingReturned =>
        LET rows == ret.df.rows
            N == Len(rows)
        IN  \A d \in Dimensions :
                /\ \A i, j \in 1..N :
                      RGt(rows[i][ScoreColumnOf[d]], rows[j][ScoreColumnOf[d]])
                          => rows[i][RankColumnOf[d]] < rows[j][RankColumnOf[d]]
                /\ \E i \in 1..N : rows[i][RankColumnOf[d]] = 1
                /\ \A i \in 1..N : rows[i][RankColumnOf[d]] \in 1..N

\* Three records whose returned outreach scores are not all equal, ranked by
\* either path.
C28_Witness ==
    /\ RankingReturned
    /\ Len(ret.df.rows) = 3
    /\ \E i, j \in 1..3 :
          /\ RGt(ret.df.rows[i]["outreach_score"], ret.df.rows[j]["outreach_score"])
          /\ ret.df.rows[i]["outreach_rank"] = 1
          /\ ret.df.rows[j]["outreach_rank"] = 3

ZeroWeights3 == <<F(0), F(0), F(0)>>

AllZeroAtRankOne(d) ==
    \A i \in 1..Len(ret.df.rows) :
        /\ ret.df.rows[i][ScoreColumnOf[d]] = F(0)
        /\ ret.df.rows[i][RankColumnOf[d]] = 1

\* C29: with the three weights of a dimension all 0, or both combined weights
\* 0 under weighted_average, the weighted scorers return 0 for every record,
\* and generate_rankings_with_weights completes with every record's score 0
\* and rank 1 in that dimension.
C29_ZeroWeightsScoreZero ==
    /\ (call.fn \in {"calculate_action_sports_score_weighted",
                     "calculate_outreach_score_weighted"}
            /\ call.weights = ZeroWeights3) =>
           \A i \in 1..Len(ret.values) : ret.values[i] = F(0)
    /\ (call.fn = "generate_rankings_with_weights"
            /\ \/ call.action_sports_weights = ZeroWeights3
               \/ call.outreach_weights = ZeroWeights3
               \/ /\ call.combination_method = "weighted_average"
                  /\ call.combined_weights = <<F(0), F(0)>>) =>
           /\ ret.status = "ok"
           /\ call.action_sports_weights = ZeroWeights3 => AllZeroAtRankOne("action_sports")
           /\ call.outreach_weights = ZeroWeights3 => AllZeroAtRankOne("outreach")
           /\ (call.combination_method = "weighted_average"
                  /\ call.combined_weights = <<F(0), F(0)>>) => AllZeroAtRankOne("combined")

-----------------------------------------------------------------------------
(* The reset button of the sidebar *)

ResetJustRan == call.fn = "reset_weights_callback"

ResetKeys == ComponentWeightKeys \cup {"combination_method"}

\* C30: right after reset_weights_callback, whatever sliders and method were
\* chosen before, the six component weights hold their defaults and
\* combination_method is "multiply"; each combined weight is 0.5 if its key
\* existed before the callback and is absent if it did not; every other key
\* holds the value it had.
C30_ResetRestoresDefaults ==
    ResetJustRan =>
        LET defaults == get_default_weights
            before == call.before
        IN  /\ ResetKeys \subseteq DOMAIN session_state
            /\ session_state["weight_tourism_infra"] =
                   defaults.action_sports_weights.tourism_infra
            /\ session_state["weight_safety"] =
                   defaults.action_sports_weights.safety
            /\ session_state["weight_natural_resources"] =
                   defaults.action_sports_weights.natural_resources
            /\ session_state["weight_religious_need"] =
                   defaults.outreach_weights.religious_need
            /\ session_state["weight_missionary_gap"] =
                   defaults.outreach_weights.missionary_gap
            /\ session_state["weight_legal_openness"] =
                   defaults.outreach_weights.legal_openness
            /\ session_state["combination_method"] = "multiply"
            /\ \A k \in CombinedWeightKeys :
                   IF k \in DOMAIN before
                   THEN k \in DOMAIN session_state /\ session_state[k] = Q(1, 2)
                   ELSE k \notin DOMAIN session_state
            /\ DOMAIN session_state = DOMAIN before \cup ResetKeys
            /\ \A k \in DOMAIN before \ (ResetKeys \cup CombinedWeightKeys) :
                   session_state[k] = before[k]

\* The reset ran on a session where a component slider had been moved off its
\* default, the method had been changed and back, and the combined sliders
\* were not in the session.
C30_Witness ==
    /\ ResetJustRan
    /\ call.before["weight_safety"] = F(1)
    /\ call.before["weight_missionary_gap"] = F(0)
    /\ call.before["combination_method"] = "multiply"
    /\ CombinedWeightKeys \cap DOMAIN call.before = {}
    /\ call.before["reset_weights"] = TRUE

\* The reset ran under "weighted_average" with both combined sliders moved.
C30_WitnessCombinedPresent ==
    /\ ResetJustRan
    /\ call.before["combination_method"] = "weighted_average"
    /\ call.before["weight_action_combined"] = F(1)
    /\ call.before["weight_outreach_combined"] = F(0)
    /\ call.before["weight_tourism_infra"] = F(0)

====
